---------------------------- MODULE Spec2Model ----------------------------
(* State-machine model of the orchestration core of the SRS agent backend: *)
(* the request handlers of backend/main.py (process, reset, delete,        *)
(* startup recovery, the background task), the pipeline of                 *)
(* backend/core/langgraph_pipeline.py and the dispatcher and compiler      *)
(* nodes of backend/core/langgraph_supervisor.py.                          *)
(*                                                                         *)
(* Texts (worker outputs, messages, documents) are sequences of string     *)
(* tokens; string formatting is concatenation of token sequences.          *)
(* Timestamps and the elapsed time of the dispatcher are left out.         *)
EXTENDS Integers, Sequences, FiniteSets, TLC

(***************************************************************************)
(* Bounds of the model.                                                    *)
(***************************************************************************)
\* number of project ids that upload can hand out
MaxProjects == 1
\* number of background task slots (runs in flight, plus kept closures)
MaxRuns == 2
\* number of progress streams that can be open at a time
MaxStreams == 2
\* the maximum stream lifetime, counted in sleeps of the polling loop
\* (max_duration / 1.5 s)
MaxTicks == 2
\* max_wait of wait_for_completion, counted in check intervals
\* (max_wait / check_interval)
MaxWait == 2
\* number of events a Queue object holds before the producers are held back
\* (the Queue of the program is unbounded)
MaxQueue == 2

(***************************************************************************)
(* Values.                                                                 *)
(***************************************************************************)
ProjectIds == 1 .. MaxProjects
RunIds == 1 .. MaxRuns
StreamIds == 1 .. MaxStreams
\* the Queue objects alive at a time: one per open stream at most
QueueIds == 1 .. MaxStreams

\* Python's None where a text is expected, and where an int is expected
None == <<"NoneType">>
NoneInt == -1
\* no closure stored in the workflow / no run
NoRun == 0
\* no Queue object
NoQueue == 0
\* a key that is absent from a dict
Absent == [absent |-> TRUE]

Min(a, b) == IF a < b THEN a ELSE b

Digit == <<"0", "1", "2", "3", "4", "5", "6", "7", "8", "9">>

RECURSIVE IntStr(_)
\* str(n) for n >= 0
IntStr(n) == IF n < 10 THEN Digit[n + 1] ELSE IntStr(n \div 10) \o Digit[(n % 10) + 1]

Pad3(n) == Digit[(n \div 100) + 1] \o Digit[((n \div 10) % 10) + 1] \o Digit[(n % 10) + 1]

RECURSIVE Comma(_)
\* f"{n:,}"
Comma(n) == IF n < 1000 THEN IntStr(n) ELSE Comma(n \div 1000) \o "," \o Pad3(n % 1000)

\* f"{v}" of a text or of None
Format(v) == IF v = None THEN <<"None">> ELSE v

\* dict.get(key, default)
Get(d, k, default) == IF k \in DOMAIN d THEN d[k] ELSE default

\* s.startswith(tok)
StartsWith(s, tok) == Len(s) > 0 /\ s[1] = tok

\* s[:n]
Prefix(s, n) == SubSeq(s, 1, Min(Len(s), n))

\* tok in s
Contains(s, tok) == \E i \in 1 .. Len(s) : s[i] = tok

(***************************************************************************)
(* The files that can be uploaded: name (base, extension) and content.     *)
(***************************************************************************)
UploadFiles ==
    { [base |-> "spec", ext |-> "txt", content |-> <<"shall", "login">>],
      [base |-> "srs", ext |-> "pdf", content |-> <<"%PDF">>] }

\* SRSLoader.load_from_uploaded_file: the texts it can return; the empty set
\* of results stands for an exception only (see LoaderRaises)
LoaderTexts(f) ==
    IF f.ext \in {"txt", "md"} THEN {f.content}
    ELSE IF f.ext \in {"pdf", "docx", "doc"} THEN {<<"page">>}
    ELSE {}

\* the exceptions load_from_uploaded_file can raise for the file
LoaderRaises(f) ==
    IF f.ext \in {"txt", "md"} THEN {}
    ELSE IF f.ext \in {"pdf", "docx", "doc"} THEN {<<"Failed", "to", "extract">>}
    ELSE {<<"Unsupported", "file", "format">>}

(***************************************************************************)
(* Workers.                                                                *)
(***************************************************************************)
\* the four roles, in launch order
Roles == <<"requirements", "architecture", "api_spec", "database_schema">>
RoleSet == {Roles[i] : i \in 1 .. Len(Roles)}

total_workers == 4

worker_labels ==
    [requirements |-> "Technical Requirements",
     architecture |-> "System Design",
     api_spec |-> "Software Architecture",
     database_schema |-> "Database Schema"]

\* what llm.invoke(messages).content can be for a role: some text, and for
\* the database role, whose prompt asks for it, the empty string
LlmContents(role) ==
    { <<"content-of", role>> } \cup (IF role = "database_schema" THEN { <<>> } ELSE {})

\* the exceptions llm.invoke can raise (after its retries)
LlmExceptions == { <<"timeout">> }

\* run_requirements / run_architecture / run_api / run_database:
\* (role, content) on success, (role, "Error: " + str(e)) on an exception
WorkerResults(role) ==
    LlmContents(role) \cup { <<"Error:">> \o e : e \in LlmExceptions }

\* the results of the workers when no call to the generation service fails
\* and every call returns text
ReliableResults(role) == { <<"content-of", role>> }

(***************************************************************************)
(* Messages.                                                               *)
(***************************************************************************)
MsgStartProcessing == <<"Starting", "processing...">>
MsgLoading == <<"Loading", "document...">>
MsgInitializing == <<"Initializing", "multi-agent", "workflow...">>
Msg1 == <<"Starting", "4", "parallel", "workers", "with", "intelligent", "chunking...">>
Msg2(srs_content) == <<"Processing", Comma(Len(srs_content)), "characters", "of", "SRS", "content...">>
Msg3 == <<"Using", "full", "document", "context", "for", "all", "workers">>
MsgParallel == <<"Starting", "parallel", "processing", "of", "4", "documentation", "sections...">>
MsgWorkerFailed(label, result) == <<"warning", label, "failed:">> \o Prefix(result, 100)
MsgWorkerCompleted(label, result, pct) ==
    <<label, "completed", Comma(Len(result)), "chars", IntStr(pct) \o "%", "done">>
MsgAllDone(total_chars) ==
    <<"All", "4", "sections", "generated", "Total:", Comma(total_chars), "characters">>
MsgCompiling == <<"Compiling", "final", "technical", "documentation...">>
MsgCompiled == <<"Final", "documentation", "compiled", "successfully">>
MsgWorkflowCompleted == <<"Multi-agent", "workflow", "completed!">>
MsgCompleted == <<"[ok]", "Processing", "completed!">>
MsgError(e) == <<"[x]", "Error:">> \o e
MsgInterrupted == <<"Processing", "interrupted", "-", "backend", "restarted">>
MsgReady == <<"Ready", "to", "process">>
MsgStarting == <<"Starting...">>
MsgDone == <<"Done">>
MsgNotFound == <<"Project", "not", "found">>

(***************************************************************************)
(* Compiler.                                                               *)
(***************************************************************************)
HdrRequirements == "# Technical Requirements"
HdrDesign == "# System Design"
HdrSoftware == "# Software Architecture"
HdrLinks == "## Useful Links"

\* the header block of the document
DocHeader(project_name) ==
    << "#", project_name, "- Technical Documentation",
       "## Quick Links", "| Project |", project_name,
       "## About This Document", project_name,
       "## Overview of the Project", project_name, "---" >>

\* (a template with the database part before the software architecture)
CompileDocDatabaseFirst(state) ==
    DocHeader(Get(state, "project_name", "Project"))
      \o <<HdrRequirements>>
      \o Format(Get(state, "requirements", <<"Requirements", "analysis", "pending...">>))
      \o <<"---", HdrDesign>>
      \o Format(Get(state, "architecture", <<"System", "architecture", "pending...">>))
      \o <<"---", HdrSoftware>>
      \o Format(Get(state, "database_schema", <<>>))
      \o Format(Get(state, "api_spec", <<"Software", "architecture", "pending...">>))
      \o <<"---", HdrLinks>>

\* (a template that also reports the size of the source text)
CompileDocWithSourceSize(state) ==
    DocHeader(Get(state, "project_name", "Project"))
      \o <<Comma(Len(state.srs_content)), "characters", HdrRequirements>>
      \o Format(Get(state, "requirements", <<"Requirements", "analysis", "pending...">>))
      \o <<"---", HdrDesign>>
      \o Format(Get(state, "architecture", <<"System", "architecture", "pending...">>))
      \o <<"---", HdrSoftware>>
      \o Format(Get(state, "api_spec", <<"Software", "architecture", "pending...">>))
      \o Format(Get(state, "database_schema", <<>>))
      \o <<"---", HdrLinks>>

\* the f-string of compiler_node, over the state dict
CompileDoc(state) ==
    DocHeader(Get(state, "project_name", "Project"))
      \o <<HdrRequirements>>
      \o Format(Get(state, "requirements", <<"Requirements", "analysis", "pending...">>))
      \o <<"---", HdrDesign>>
      \o Format(Get(state, "architecture", <<"System", "architecture", "pending...">>))
      \o <<"---", HdrSoftware>>
      \o Format(Get(state, "api_spec", <<"Software", "architecture", "pending...">>))
      \o Format(Get(state, "database_schema", <<>>))
      \o <<"---", HdrLinks>>

\* (a percentage that truncates the quotient before it is scaled)
ProgressPercentageTruncated(completed_count) == (completed_count \div total_workers) * 100

\* int((completed_count / total_workers) * 100)
ProgressPercentage(completed_count) == (completed_count * 100) \div total_workers


(***************************************************************************)
(* State.                                                                  *)
(***************************************************************************)
VARIABLES
    up,                \* the server process is running and has started up
    usedIds,           \* the project ids uuid4 has handed out so far
    store,             \* project_store: project id -> ProjectMetadata
    files,             \* project_store's files: project id -> uploaded file
    progress_queues,   \* progress_queues: project id -> Queue object
    queues,            \* the Queue objects: object -> the events it holds
    streams,           \* the open streams: slot -> event_generator frame
    runs,              \* the background tasks: slot -> process_project_task frame
    progress_callback, \* LangGraphSupervisorWorkflow.progress_callback: the
                       \* slot whose update_progress closure is stored
    response,          \* what the step just taken returned to its caller
                       \* (NoResponse after a step that is not a request)
    waits              \* the client's call of wait_for_completion: its frame

vars == <<up, usedIds, store, files, progress_queues, queues, streams, runs,
          progress_callback, response, waits>>

\* ProjectMetadata as upload_srs creates it
NewProject(id, f) ==
    [id |-> id, name |-> f.base, file_name |-> <<f.base, f.ext>>,
     file_size |-> Len(f.content), status |-> "uploaded",
     parsed_srs |-> None, tech_doc |-> None, progress_message |-> None,
     current_chunk |-> NoneInt, total_chunks |-> NoneInt]

\* _state_to_parsed_srs: the minimal ParsedSRS of a final state
StateToParsedSrs(state) ==
    <<"ParsedSRS", Get(state, "project_name", ""), "AI-generated technical documentation",
      "Full system scope">>

\* initial_state of process_srs
InitialState(srs_content, project_name) ==
    [srs_content |-> srs_content, project_name |-> project_name,
     requirements |-> None, architecture |-> None, api_spec |-> None,
     database_schema |-> None, tech_doc |-> None, all_workers_done |-> FALSE,
     error |-> None]

\* a task slot that holds no frame
UnusedRun ==
    [pc |-> "unused", pid |-> 0, project |-> Absent, file_obj |-> Absent,
     raw_text |-> None, state |-> Absent, completed_count |-> 0, done |-> {},
     exc |-> None, result |-> Absent, log |-> <<>>]

NoResponse == [op |-> "none", code |-> 0, project_id |-> 0, status |-> "none"]

\* no call of wait_for_completion; of a call: where it is (test: at the
\* condition of the while loop, sleeping: in time.sleep, returned, notfound,
\* timeout, failed: how it has ended), its project_id, the check intervals
\* it has slept, the status its last poll has read and the value returned
NoWait == [pc |-> "idle", pid |-> 0, elapsed |-> 0, seen |-> "none", result |-> "none"]

\* project_store.get_project
GetProject(s, id) == IF id \in DOMAIN s THEN s[id] ELSE Absent

\* project_store.save_project
SaveProject(s, project) ==
    [k \in DOMAIN s \cup {project.id} |-> IF k = project.id THEN project ELSE s[k]]

\* removal of a key from a dict
Remove(d, k) == [j \in DOMAIN d \ {k} |-> d[j]]

\* x or 0, for an optional int
OrZero(x) == IF x = NoneInt THEN 0 ELSE x

\* the event update_progress puts on the queue
ProgressEvent(status, message, current, total) ==
    [event |-> "progress",
     data |-> [status |-> status, progress_message |-> message,
               current_chunk |-> current, total_chunks |-> total]]

\* if project_id in progress_queues: progress_queues[project_id].put(event)
\* (qs: the Queue objects, reg: the registry)
Broadcast(qs, reg, id, event) ==
    IF id \in DOMAIN reg THEN [qs EXCEPT ![reg[id]] = Append(@, event)] ELSE qs

\* nothing yielded
NoEvent == [event |-> "none", data |-> << >>]

\* a stream slot that holds no generator; of a generator: where it is
\* suspended, its project_id, queue and elapsed time, and the event it has
\* yielded last
ClosedStream ==
    [pc |-> "closed", pid |-> 0, queue |-> NoQueue, elapsed |-> 0, last |-> NoEvent]

\* the Queue objects that the registry or an open stream still refers to
Referenced(reg, strs) ==
    {reg[id] : id \in DOMAIN reg} \cup ({strs[s].queue : s \in StreamIds} \ {NoQueue})

\* the Queue objects left once the unreferenced ones are collected
Collect(qs, reg, strs) ==
    [q \in DOMAIN qs \cap Referenced(reg, strs) |-> qs[q]]

Init ==
    /\ up = FALSE
    /\ usedIds = {}
    /\ store = << >>
    /\ files = << >>
    /\ progress_queues = << >>
    /\ queues = << >>
    /\ streams = [s \in StreamIds |-> ClosedStream]
    /\ runs = [r \in RunIds |-> UnusedRun]
    /\ progress_callback = NoRun
    /\ response = NoResponse
    /\ waits = NoWait

(***************************************************************************)
(* Request handlers (each runs on the event loop without suspending).      *)
(***************************************************************************)
\* startup_event: reset the projects stuck in processing or parsing
StuckStatuses == {"processing", "parsing"}

\* (a recovery that looks for "processing" only)
RecoverProcessingOnly(project) ==
    IF project.status = "processing"
    THEN [project EXCEPT !.status = "error", !.progress_message = MsgInterrupted]
    ELSE project

\* (a recovery that takes every project without a result for stuck)
RecoverUnfinished(project) ==
    IF project.status # "completed"
    THEN [project EXCEPT !.status = "error", !.progress_message = MsgInterrupted]
    ELSE project

Recover(project) ==
    IF project.status \in StuckStatuses
    THEN [project EXCEPT !.status = "error", !.progress_message = MsgInterrupted]
    ELSE project

StartupEvent ==
    /\ ~up
    /\ up' = TRUE
    /\ store' = [id \in DOMAIN store |-> Recover(store[id])]
    /\ response' = NoResponse
    /\ UNCHANGED <<usedIds, files, progress_queues, queues, streams, runs, progress_callback>>

\* the server process stops: everything held in memory is lost
Crash ==
    /\ up
    /\ up' = FALSE
    /\ progress_queues' = << >>
    /\ queues' = << >>
    /\ streams' = [s \in StreamIds |-> ClosedStream]
    /\ runs' = [r \in RunIds |-> UnusedRun]
    /\ progress_callback' = NoRun
    /\ response' = NoResponse
    /\ UNCHANGED <<usedIds, store, files>>

\* upload_srs, for a file that passes its checks
UploadSrs(id, f) ==
    /\ up
    /\ id \notin usedIds
    /\ \A j \in ProjectIds : j < id => j \in usedIds
    /\ usedIds' = usedIds \cup {id}
    /\ store' = SaveProject(store, NewProject(id, f))
    /\ files' = [k \in DOMAIN files \cup {id} |-> IF k = id THEN f ELSE files[k]]
    /\ response' = [op |-> "upload", code |-> 200, project_id |-> id, status |-> "uploaded"]
    /\ UNCHANGED <<up, progress_queues, queues, streams, runs, progress_callback>>

\* the slot background_tasks.add_task puts the next task in
FreeSlots == {r \in RunIds : runs[r].pc = "unused"}
NextSlot == CHOOSE r \in FreeSlots : \A q \in FreeSlots : r <= q

\* (a process_project without the check for a completed project)
ProcessProjectUnguarded(id) ==
    /\ up
    /\ LET project == GetProject(store, id) IN
       IF project = Absent
       THEN /\ response' = [op |-> "process", code |-> 404, project_id |-> id, status |-> "none"]
            /\ UNCHANGED <<store, runs>>
       ELSE /\ FreeSlots # {}
            /\ runs' = [runs EXCEPT ![NextSlot] =
                          [UnusedRun EXCEPT !.pc = "scheduled", !.pid = id]]
            /\ store' = SaveProject(store, [project EXCEPT !.status = "processing"])
            /\ response' = [op |-> "process", code |-> 200, project_id |-> id, status |-> "processing"]
    /\ UNCHANGED <<up, usedIds, files, progress_queues, queues, streams, progress_callback>>

\* process_project
ProcessProject(id) ==
    /\ up
    /\ LET project == GetProject(store, id) IN
       IF project = Absent
       THEN /\ response' = [op |-> "process", code |-> 404, project_id |-> id, status |-> "none"]
            /\ UNCHANGED <<store, runs>>
       ELSE IF project.status = "completed"
       THEN /\ response' = [op |-> "process", code |-> 200, project_id |-> id, status |-> "completed"]
            /\ UNCHANGED <<store, runs>>
       ELSE /\ FreeSlots # {}
            /\ runs' = [runs EXCEPT ![NextSlot] =
                          [UnusedRun EXCEPT !.pc = "scheduled", !.pid = id]]
            /\ store' = SaveProject(store, [project EXCEPT !.status = "processing"])
            /\ response' = [op |-> "process", code |-> 200, project_id |-> id, status |-> "processing"]
    /\ UNCHANGED <<up, usedIds, files, progress_queues, queues, streams, progress_callback>>

\* (a reset that puts the status back and keeps what the last run stored)
ResetProjectKeepsResult(id) ==
    /\ up
    /\ LET project == GetProject(store, id) IN
       IF project = Absent
       THEN /\ response' = [op |-> "reset", code |-> 404, project_id |-> id, status |-> "none"]
            /\ UNCHANGED <<store, progress_queues, queues>>
       ELSE /\ store' = SaveProject(store,
                   [project EXCEPT !.status = "uploaded", !.progress_message = MsgReady])
            /\ progress_queues' = Remove(progress_queues, id)
            /\ queues' = Collect(queues, progress_queues', streams)
            /\ response' = [op |-> "reset", code |-> 200, project_id |-> id, status |-> "uploaded"]
    /\ UNCHANGED <<up, usedIds, files, streams, runs, progress_callback>>

\* (a reset that clears the result and the steps and leaves the status)
ResetProjectKeepsStatus(id) ==
    /\ up
    /\ LET project == GetProject(store, id) IN
       IF project = Absent
       THEN /\ response' = [op |-> "reset", code |-> 404, project_id |-> id, status |-> "none"]
            /\ UNCHANGED <<store, progress_queues, queues>>
       ELSE /\ store' = SaveProject(store,
                   [project EXCEPT !.progress_message = MsgReady,
                                   !.current_chunk = NoneInt, !.total_chunks = NoneInt,
                                   !.parsed_srs = None, !.tech_doc = None])
            /\ progress_queues' = Remove(progress_queues, id)
            /\ queues' = Collect(queues, progress_queues', streams)
            /\ response' = [op |-> "reset", code |-> 200, project_id |-> id, status |-> "uploaded"]
    /\ UNCHANGED <<up, usedIds, files, streams, runs, progress_callback>>

\* reset_project
ResetProject(id) ==
    /\ up
    /\ LET project == GetProject(store, id) IN
       IF project = Absent
       THEN /\ response' = [op |-> "reset", code |-> 404, project_id |-> id, status |-> "none"]
            /\ UNCHANGED <<store, progress_queues, queues>>
       ELSE /\ store' = SaveProject(store,
                   [project EXCEPT !.status = "uploaded", !.progress_message = MsgReady,
                                   !.current_chunk = NoneInt, !.total_chunks = NoneInt,
                                   !.parsed_srs = None, !.tech_doc = None])
            /\ progress_queues' = Remove(progress_queues, id)
            /\ queues' = Collect(queues, progress_queues', streams)
            /\ response' = [op |-> "reset", code |-> 200, project_id |-> id, status |-> "uploaded"]
    /\ UNCHANGED <<up, usedIds, files, streams, runs, progress_callback>>

\* delete_project
DeleteProject(id) ==
    /\ up
    /\ IF id \in DOMAIN store
       THEN /\ store' = Remove(store, id)
            /\ files' = Remove(files, id)
            /\ response' = [op |-> "delete", code |-> 200, project_id |-> id, status |-> "none"]
       ELSE /\ response' = [op |-> "delete", code |-> 404, project_id |-> id, status |-> "none"]
            /\ UNCHANGED <<store, files>>
    /\ UNCHANGED <<up, usedIds, progress_queues, queues, streams, runs, progress_callback>>


(***************************************************************************)
(* The background task and the pipeline it runs in the executor thread.    *)
(***************************************************************************)
\* update_progress of the frame in slot t, called with (current, total,
\* message): the frame's project object is changed and saved whole, and the
\* event is put on the queue of the frame's project if there is one
ProjectAfterProgress(project, current, total, message) ==
    [project EXCEPT !.current_chunk = current, !.total_chunks = total,
                    !.progress_message = message]

\* (an update_progress that puts the event and does not save the record)
EmitWithoutSave(r, frame, t, current, total, message, src) ==
    IF t = NoRun
    THEN /\ runs' = [runs EXCEPT ![r] = frame]
         /\ UNCHANGED <<store, queues>>
    ELSE LET logged == [frame EXCEPT !.log =
                          Append(@, [current |-> current, total |-> total, src |-> src])]
             base == [runs EXCEPT ![r] = logged]
             project == ProjectAfterProgress(base[t].project, current, total, message)
         IN /\ runs' = [base EXCEPT ![t].project = project]
            /\ UNCHANGED store
            /\ queues' =
                 Broadcast(queues, progress_queues, project.id,
                           ProgressEvent(project.status, message, current, total))

\* One step of the thread of slot r that ends in a progress callback: frame
\* is r's frame after the step, t the slot whose closure is called (NoRun:
\* no callback is set), src the place of the call.
Emit(r, frame, t, current, total, message, src) ==
    IF t = NoRun
    THEN /\ runs' = [runs EXCEPT ![r] = frame]
         /\ UNCHANGED <<store, queues>>
    ELSE LET logged == [frame EXCEPT !.log =
                          Append(@, [current |-> current, total |-> total, src |-> src])]
             base == [runs EXCEPT ![r] = logged]
             project == ProjectAfterProgress(base[t].project, current, total, message)
         IN /\ runs' = [base EXCEPT ![t].project = project]
            /\ store' = SaveProject(store, project)
            /\ queues' =
                 Broadcast(queues, progress_queues, project.id,
                           ProgressEvent(project.status, message, current, total))

\* process_project_task up to run_in_executor
TaskStart(r) ==
    /\ up
    /\ runs[r].pc = "scheduled"
    /\ LET project == GetProject(store, runs[r].pid) IN
       IF project = Absent
       THEN \* project.status raises; the handler finds no project either
            /\ runs' = [runs EXCEPT ![r] = UnusedRun]
            /\ UNCHANGED store
       ELSE LET started == [project EXCEPT !.status = "parsing",
                                           !.progress_message = MsgStartProcessing]
            IN /\ store' = SaveProject(store, started)
               /\ IF runs[r].pid \in DOMAIN files
                  THEN runs' = [runs EXCEPT ![r].pc = "load", ![r].project = started,
                                            ![r].file_obj = files[runs[r].pid]]
                  ELSE \* project_store.get_file finds no file and raises
                       runs' = [runs EXCEPT ![r].pc = "raised", ![r].project = started,
                                            ![r].exc = <<"File", "not", "found">>]
    /\ response' = NoResponse
    /\ UNCHANGED <<up, usedIds, files, progress_queues, queues, streams, progress_callback>>

\* run_from_uploaded_file: the first callback and the loader
RunFromUploadedFile(r) ==
    /\ up
    /\ runs[r].pc = "load"
    /\ \/ \E text \in LoaderTexts(runs[r].file_obj) :
            Emit(r, [runs[r] EXCEPT !.pc = "init", !.raw_text = text],
                 r, 0, 0, MsgLoading, "pipeline")
       \/ \E e \in LoaderRaises(runs[r].file_obj) :
            Emit(r, [runs[r] EXCEPT !.pc = "raised", !.exc = e],
                 r, 0, 0, MsgLoading, "pipeline")
    /\ response' = NoResponse
    /\ UNCHANGED <<up, usedIds, files, progress_queues, streams, progress_callback>>

\* _run_workflow: the callback before process_srs
RunWorkflowInit(r) ==
    /\ up
    /\ runs[r].pc = "init"
    /\ Emit(r, [runs[r] EXCEPT !.pc = "srs"], r, 0, 100, MsgInitializing, "workflow")
    /\ response' = NoResponse
    /\ UNCHANGED <<up, usedIds, files, progress_queues, streams, progress_callback>>

\* process_srs: store the callback in the workflow object, build the state
ProcessSrs(r) ==
    /\ up
    /\ runs[r].pc = "srs"
    /\ progress_callback' = r
    /\ runs' = [x \in RunIds |->
                 IF x = r
                 THEN [runs[r] EXCEPT !.pc = "msg1",
                                      !.state = InitialState(runs[r].raw_text,
                                                             runs[r].project.name)]
                 ELSE IF x = progress_callback /\ runs[x].pc = "ended"
                 THEN UnusedRun  \* the closure stored before is dropped
                 ELSE runs[x]]
    /\ response' = NoResponse
    /\ UNCHANGED <<up, usedIds, store, files, progress_queues, queues, streams>>

\* parallel_workers_node: the three callbacks before the workers
WorkersMsg1(r) ==
    /\ up
    /\ runs[r].pc = "msg1"
    /\ Emit(r, [runs[r] EXCEPT !.pc = "msg2"], progress_callback, 10, 100, Msg1, "dispatcher")
    /\ response' = NoResponse
    /\ UNCHANGED <<up, usedIds, files, progress_queues, streams, progress_callback>>

WorkersMsg2(r) ==
    /\ up
    /\ runs[r].pc = "msg2"
    /\ Emit(r, [runs[r] EXCEPT !.pc = "msg3"], progress_callback, 15, 100,
            Msg2(runs[r].state.srs_content), "dispatcher")
    /\ response' = NoResponse
    /\ UNCHANGED <<up, usedIds, files, progress_queues, streams, progress_callback>>

WorkersMsg3(r) ==
    /\ up
    /\ runs[r].pc = "msg3"
    /\ Emit(r, [runs[r] EXCEPT !.pc = "start"], progress_callback, 20, 100, Msg3, "dispatcher")
    /\ response' = NoResponse
    /\ UNCHANGED <<up, usedIds, files, progress_queues, streams, progress_callback>>

\* parallel_workers_node: the callback before the executor is entered
WorkersStart(r) ==
    /\ up
    /\ runs[r].pc = "start"
    /\ Emit(r, [runs[r] EXCEPT !.pc = "workers", !.completed_count = 0],
            progress_callback, 25, 100, MsgParallel, "dispatcher")
    /\ response' = NoResponse
    /\ UNCHANGED <<up, usedIds, files, progress_queues, streams, progress_callback>>

\* the roles whose future as_completed has not yielded yet
PendingRoles(r) == RoleSet \ runs[r].done

\* the progress message for a worker's result
WorkerMessage(worker_name, result, progress_percentage) ==
    IF StartsWith(result, "Error:")
    THEN MsgWorkerFailed(worker_labels[worker_name], result)
    ELSE MsgWorkerCompleted(worker_labels[worker_name], result, progress_percentage)

\* (workers without their own try/except: a failed call leaves the loop
\* through the dispatcher's except branch)
WorkerCompletedUnisolated(r, worker_name, result) ==
    /\ up
    /\ runs[r].pc = "workers"
    /\ worker_name \in PendingRoles(r)
    /\ IF StartsWith(result, "Error:")
       THEN /\ runs' = [runs EXCEPT ![r].pc = "compiler",
                                    ![r].state.error = <<"Parallel", "execution", "failed:">>
                                                         \o SubSeq(result, 2, Len(result))]
            /\ UNCHANGED <<store, queues>>
       ELSE LET count == runs[r].completed_count + 1
                pct == ProgressPercentage(count)
            IN Emit(r, [runs[r] EXCEPT !.state[worker_name] = result,
                                       !.completed_count = count,
                                       !.done = @ \cup {worker_name}],
                    progress_callback, pct, 100, WorkerMessage(worker_name, result, pct), "worker")
    /\ response' = NoResponse
    /\ UNCHANGED <<up, usedIds, files, progress_queues, streams, progress_callback>>

\* parallel_workers_node: one turn of the as_completed loop, for the worker
\* that finishes next (any of the pending ones) with any of its results
WorkerCompleted(r, worker_name, result) ==
    /\ up
    /\ runs[r].pc = "workers"
    /\ worker_name \in PendingRoles(r)
    /\ LET count == runs[r].completed_count + 1
           pct == ProgressPercentage(count)
       IN Emit(r, [runs[r] EXCEPT !.state[worker_name] = result,
                                  !.completed_count = count,
                                  !.done = @ \cup {worker_name}],
               progress_callback, pct, 100, WorkerMessage(worker_name, result, pct), "worker")
    /\ response' = NoResponse
    /\ UNCHANGED <<up, usedIds, files, progress_queues, streams, progress_callback>>

\* sum of the lengths of the four results (len(None) raises)
TotalChars(state) ==
    Len(state.requirements) + Len(state.architecture) + Len(state.api_spec)
      + Len(state.database_schema)

\* (a dispatcher that stops waiting once one worker has finished)
WorkersAllDoneEarly(r) ==
    /\ up
    /\ runs[r].pc = "workers"
    /\ runs[r].done # {}
    /\ Emit(r, [runs[r] EXCEPT !.pc = "compiler", !.state.all_workers_done = TRUE],
            progress_callback, 100, 100, MsgAllDone(TotalChars(runs[r].state)), "dispatcher")
    /\ response' = NoResponse
    /\ UNCHANGED <<up, usedIds, files, progress_queues, streams, progress_callback>>

\* parallel_workers_node: after the executor has been left
WorkersAllDone(r) ==
    /\ up
    /\ runs[r].pc = "workers"
    /\ PendingRoles(r) = {}
    /\ Emit(r, [runs[r] EXCEPT !.pc = "compiler", !.state.all_workers_done = TRUE],
            progress_callback, 100, 100, MsgAllDone(TotalChars(runs[r].state)), "dispatcher")
    /\ response' = NoResponse
    /\ UNCHANGED <<up, usedIds, files, progress_queues, streams, progress_callback>>

\* compiler_node: the callback before the document is built
CompilerStart(r) ==
    /\ up
    /\ runs[r].pc = "compiler"
    /\ Emit(r, [runs[r] EXCEPT !.pc = "compile"], progress_callback, 95, 100,
            MsgCompiling, "compiler")
    /\ response' = NoResponse
    /\ UNCHANGED <<up, usedIds, files, progress_queues, streams, progress_callback>>

\* compiler_node: the document and the callback after it
CompilerCompile(r) ==
    /\ up
    /\ runs[r].pc = "compile"
    /\ Emit(r, [runs[r] EXCEPT !.pc = "final", !.state.tech_doc = CompileDoc(runs[r].state)],
            progress_callback, 100, 100, MsgCompiled, "compiler")
    /\ response' = NoResponse
    /\ UNCHANGED <<up, usedIds, files, progress_queues, streams, progress_callback>>

\* (a _run_workflow that does not look at the error of the final state)
RunWorkflowFinishIgnoresError(r) ==
    /\ up
    /\ runs[r].pc = "final"
    /\ LET final_state == runs[r].state IN
       Emit(r, [runs[r] EXCEPT !.pc = "returned",
                               !.result = [parsed_srs |-> StateToParsedSrs(final_state),
                                           tech_doc |-> Get(final_state, "tech_doc", <<>>)]],
            r, 100, 100, MsgWorkflowCompleted, "workflow")
    /\ response' = NoResponse
    /\ UNCHANGED <<up, usedIds, files, progress_queues, streams, progress_callback>>

\* _run_workflow after process_srs has returned the final state
RunWorkflowFinish(r) ==
    /\ up
    /\ runs[r].pc = "final"
    /\ LET final_state == runs[r].state IN
       IF Get(final_state, "error", None) # None
       THEN /\ runs' = [runs EXCEPT ![r].pc = "raised",
                                    ![r].exc = <<"Workflow", "failed:">> \o final_state.error]
            /\ UNCHANGED <<store, queues>>
       ELSE Emit(r, [runs[r] EXCEPT !.pc = "returned",
                                    !.result = [parsed_srs |-> StateToParsedSrs(final_state),
                                                tech_doc |-> Get(final_state, "tech_doc", <<>>)]],
                 r, 100, 100, MsgWorkflowCompleted, "workflow")
    /\ response' = NoResponse
    /\ UNCHANGED <<up, usedIds, files, progress_queues, streams, progress_callback>>

\* what is left of a frame when its task has ended: nothing, unless the
\* workflow object still holds its update_progress closure, which keeps the
\* frame's project variable alive
Ended(r, project) ==
    IF progress_callback = r
    THEN [UnusedRun EXCEPT !.pc = "ended", !.pid = runs[r].pid, !.project = project]
    ELSE UnusedRun

\* (a task that gives way to a reset: no final write when the project is
\* back at uploaded)
TaskCompleteUnlessReset(r) ==
    /\ up
    /\ runs[r].pc = "returned"
    /\ LET project == [runs[r].project EXCEPT
                          !.parsed_srs = runs[r].result.parsed_srs,
                          !.tech_doc = runs[r].result.tech_doc,
                          !.status = "completed",
                          !.progress_message = MsgCompleted]
           found == GetProject(store, runs[r].pid)
       IN IF found # Absent /\ found.status = "uploaded"
          THEN /\ runs' = [runs EXCEPT ![r] = Ended(r, found)]
               /\ UNCHANGED <<store, queues>>
          ELSE /\ store' = SaveProject(store, project)
               /\ queues' =
                    Broadcast(queues, progress_queues, runs[r].pid,
                              ProgressEvent("completed", MsgCompleted,
                                            OrZero(project.total_chunks),
                                            OrZero(project.total_chunks)))
               /\ runs' = [runs EXCEPT ![r] = Ended(r, project)]
    /\ response' = NoResponse
    /\ UNCHANGED <<up, usedIds, files, progress_queues, streams, progress_callback>>

\* (a task that marks the project completed and drops the result)
TaskCompleteWithoutDocument(r) ==
    /\ up
    /\ runs[r].pc = "returned"
    /\ LET project == [runs[r].project EXCEPT
                          !.status = "completed",
                          !.progress_message = MsgCompleted]
       IN /\ store' = SaveProject(store, project)
          /\ queues' =
               Broadcast(queues, progress_queues, runs[r].pid,
                         ProgressEvent("completed", MsgCompleted,
                                       OrZero(project.total_chunks),
                                       OrZero(project.total_chunks)))
          /\ runs' = [runs EXCEPT ![r] = Ended(r, project)]
    /\ response' = NoResponse
    /\ UNCHANGED <<up, usedIds, files, progress_queues, streams, progress_callback>>

\* process_project_task after the pipeline has returned
TaskComplete(r) ==
    /\ up
    /\ runs[r].pc = "returned"
    /\ LET project == [runs[r].project EXCEPT
                          !.parsed_srs = runs[r].result.parsed_srs,
                          !.tech_doc = runs[r].result.tech_doc,
                          !.status = "completed",
                          !.progress_message = MsgCompleted]
       IN /\ store' = SaveProject(store, project)
          /\ queues' =
               Broadcast(queues, progress_queues, runs[r].pid,
                         ProgressEvent("completed", MsgCompleted,
                                       OrZero(project.total_chunks),
                                       OrZero(project.total_chunks)))
          /\ runs' = [runs EXCEPT ![r] = Ended(r, project)]
    /\ response' = NoResponse
    /\ UNCHANGED <<up, usedIds, files, progress_queues, streams, progress_callback>>

\* process_project_task: the except branch
TaskFailed(r) ==
    /\ up
    /\ runs[r].pc = "raised"
    /\ LET found == GetProject(store, runs[r].pid) IN
       IF found = Absent
       THEN /\ runs' = [runs EXCEPT ![r] = Ended(r, Absent)]
            /\ UNCHANGED <<store, queues>>
       ELSE LET project == [found EXCEPT !.status = "error",
                                         !.progress_message = MsgError(runs[r].exc)]
            IN /\ store' = SaveProject(store, project)
               /\ queues' =
                    Broadcast(queues, progress_queues, runs[r].pid,
                              ProgressEvent("error", MsgError(runs[r].exc),
                                            OrZero(project.current_chunk),
                                            OrZero(project.total_chunks)))
               /\ runs' = [runs EXCEPT ![r] = Ended(r, project)]
    /\ response' = NoResponse
    /\ UNCHANGED <<up, usedIds, files, progress_queues, streams, progress_callback>>

(***************************************************************************)
(* The nodes of the workflow when a progress callback raises inside their  *)
(* try block: update_progress has changed its project object and           *)
(* save_project fails, so nothing is stored and nothing is put on a queue. *)
(***************************************************************************)
\* the exceptions save_project can raise
SaveExceptions == { <<"No", "space", "left">> }

\* state["error"] as the except branch of parallel_workers_node sets it
MsgParallelFailed(e) == <<"Parallel", "execution", "failed:">> \o e

\* state["error"] as the except branch of compiler_node sets it
MsgCompilationFailed(e) == <<"Compilation", "failed:">> \o e

\* the callback of slot t, called from the thread of slot r, raises in
\* save_project: frame is r's frame after the except branch
EmitRaises(r, frame, t, current, total, message) ==
    /\ t # NoRun
    /\ LET base == [runs EXCEPT ![r] = frame]
           project == ProjectAfterProgress(base[t].project, current, total, message)
       IN runs' = [base EXCEPT ![t].project = project]
    /\ response' = NoResponse
    /\ UNCHANGED <<up, usedIds, store, files, progress_queues, queues, streams,
                   progress_callback>>

\* parallel_workers_node: the callback before the executor is entered raises
WorkersStartRaises(r, e) ==
    /\ up
    /\ runs[r].pc = "start"
    /\ EmitRaises(r, [runs[r] EXCEPT !.pc = "compiler", !.completed_count = 0,
                                     !.state.error = MsgParallelFailed(e)],
                  progress_callback, 25, 100, MsgParallel)

\* parallel_workers_node: the callback for a finished worker raises; leaving
\* the with block waits for the other workers, whose results are dropped
WorkerCompletedRaises(r, worker_name, result, e) ==
    /\ up
    /\ runs[r].pc = "workers"
    /\ worker_name \in PendingRoles(r)
    /\ LET count == runs[r].completed_count + 1
           pct == ProgressPercentage(count)
       IN EmitRaises(r, [runs[r] EXCEPT !.pc = "compiler",
                                        !.state[worker_name] = result,
                                        !.state.error = MsgParallelFailed(e),
                                        !.completed_count = count,
                                        !.done = @ \cup {worker_name}],
                     progress_callback, pct, 100, WorkerMessage(worker_name, result, pct))

\* parallel_workers_node: the callback after the executor has been left
\* raises
WorkersAllDoneRaises(r, e) ==
    /\ up
    /\ runs[r].pc = "workers"
    /\ PendingRoles(r) = {}
    /\ EmitRaises(r, [runs[r] EXCEPT !.pc = "compiler", !.state.all_workers_done = TRUE,
                                     !.state.error = MsgParallelFailed(e)],
                  progress_callback, 100, 100, MsgAllDone(TotalChars(runs[r].state)))

\* compiler_node: the callback after the document has been built raises
CompilerCompileRaises(r, e) ==
    /\ up
    /\ runs[r].pc = "compile"
    /\ EmitRaises(r, [runs[r] EXCEPT !.pc = "final",
                                     !.state.tech_doc = CompileDoc(runs[r].state),
                                     !.state.error = MsgCompilationFailed(e)],
                  progress_callback, 100, 100, MsgCompiled)

\* the steps of the task in slot r that end in one of these exceptions
RunStepRaises(r, completions) ==
    \/ \E e \in SaveExceptions : WorkersStartRaises(r, e)
    \/ \E e \in SaveExceptions : \E c \in completions : WorkerCompletedRaises(r, c[1], c[2], e)
    \/ \E e \in SaveExceptions : WorkersAllDoneRaises(r, e)
    \/ \E e \in SaveExceptions : CompilerCompileRaises(r, e)

(***************************************************************************)
(* The progress stream: event_generator of stream_progress, one action per *)
(* stretch of code between two suspensions (a yield or the sleep).         *)
(***************************************************************************)
\* x or default, for an optional text
OrText(x, default) == IF x = None \/ x = <<>> THEN default ELSE x

\* the event that reports the project as read from the store
StatusEvent(project, default) ==
    ProgressEvent(project.status, OrText(project.progress_message, default),
                  OrZero(project.current_chunk), OrZero(project.total_chunks))

NotFoundEvent == [event |-> "error", data |-> [error |-> MsgNotFound]]

HeartbeatEvent == [event |-> "heartbeat", data |-> [heartbeat |-> TRUE]]

\* event.get("data", {}).get("status")
EventStatus(event) ==
    IF "status" \in DOMAIN event.data THEN event.data.status ELSE "none"

\* status in ["completed", "error"]
TerminalStatuses == {"completed", "error"}

\* the slot a new stream takes
ClosedSlots == {s \in StreamIds : streams[s].pc = "closed"}
NextStreamSlot == CHOOSE s \in ClosedSlots : \A t \in ClosedSlots : s <= t

\* the object defaultdict(Queue) creates for a missing key
FreshQueue == CHOOSE q \in QueueIds \ DOMAIN queues : \A o \in QueueIds \ DOMAIN queues : q <= o

\* the entry a subscription leaves in the registry and the Queue objects
\* when defaultdict(Queue) is asked for the key id
RegistryWith(id) ==
    IF id \in DOMAIN progress_queues THEN progress_queues
    ELSE [k \in DOMAIN progress_queues \cup {id} |->
            IF k = id THEN FreshQueue ELSE progress_queues[k]]

QueuesWith(id) ==
    IF id \in DOMAIN progress_queues THEN queues
    ELSE [q \in DOMAIN queues \cup {FreshQueue} |->
            IF q = FreshQueue THEN <<>> ELSE queues[q]]

\* (an event_generator that asks for the queue before it looks the project
\* up)
StreamSubscribeQueueFirst(s, id) ==
    /\ up
    /\ ClosedSlots # {}
    /\ s = NextStreamSlot
    /\ id \in DOMAIN progress_queues \/ QueueIds \ DOMAIN queues # {}
    /\ progress_queues' = RegistryWith(id)
    /\ queues' = QueuesWith(id)
    /\ LET project == GetProject(store, id) IN
       IF project = Absent
       THEN streams' = [streams EXCEPT ![s] =
                          [ClosedStream EXCEPT !.pc = "notfound", !.pid = id,
                                               !.queue = progress_queues'[id],
                                               !.last = NotFoundEvent]]
       ELSE streams' = [streams EXCEPT ![s] =
                          [ClosedStream EXCEPT !.pc = "loop", !.pid = id,
                                               !.queue = progress_queues'[id],
                                               !.last = StatusEvent(project, MsgStarting)]]
    /\ response' = NoResponse
    /\ UNCHANGED <<up, usedIds, store, files, runs, progress_callback>>

\* (an event_generator that sends what is buffered before the initial state)
StreamSubscribeBufferedFirst(s, id) ==
    /\ up
    /\ ClosedSlots # {}
    /\ s = NextStreamSlot
    /\ id \in DOMAIN store
    /\ id \in DOMAIN progress_queues \/ QueueIds \ DOMAIN queues # {}
    /\ progress_queues' = RegistryWith(id)
    /\ LET q == progress_queues'[id]
           held == QueuesWith(id)
       IN IF held[q] # <<>>
          THEN /\ queues' = [held EXCEPT ![q] = Tail(@)]
               /\ streams' = [streams EXCEPT ![s] =
                                [ClosedStream EXCEPT !.pc = "loop", !.pid = id, !.queue = q,
                                                     !.last = Head(held[q])]]
          ELSE /\ queues' = held
               /\ streams' = [streams EXCEPT ![s] =
                                [ClosedStream EXCEPT !.pc = "loop", !.pid = id, !.queue = q,
                                                     !.last = StatusEvent(store[id], MsgStarting)]]
    /\ response' = NoResponse
    /\ UNCHANGED <<up, usedIds, store, files, runs, progress_callback>>

\* event_generator up to its first yield
StreamSubscribe(s, id) ==
    /\ up
    /\ ClosedSlots # {}
    /\ s = NextStreamSlot
    /\ LET project == GetProject(store, id) IN
       IF project = Absent
       THEN /\ streams' = [streams EXCEPT ![s] =
                             [ClosedStream EXCEPT !.pc = "notfound", !.pid = id,
                                                  !.last = NotFoundEvent]]
            /\ UNCHANGED <<progress_queues, queues>>
       ELSE IF id \in DOMAIN progress_queues
       THEN /\ streams' = [streams EXCEPT ![s] =
                             [ClosedStream EXCEPT !.pc = "loop", !.pid = id,
                                                  !.queue = progress_queues[id],
                                                  !.last = StatusEvent(project, MsgStarting)]]
            /\ UNCHANGED <<progress_queues, queues>>
       ELSE /\ QueueIds \ DOMAIN queues # {}
            /\ progress_queues' = RegistryWith(id)
            /\ queues' = QueuesWith(id)
            /\ streams' = [streams EXCEPT ![s] =
                             [ClosedStream EXCEPT !.pc = "loop", !.pid = id,
                                                  !.queue = FreshQueue,
                                                  !.last = StatusEvent(project, MsgStarting)]]
    /\ response' = NoResponse
    /\ UNCHANGED <<up, usedIds, store, files, runs, progress_callback>>

\* the finally block: the registry entry of the project is deleted if there
\* is one, and the generator is gone
Finally(s) ==
    /\ progress_queues' = Remove(progress_queues, streams[s].pid)
    /\ streams' = [streams EXCEPT ![s] = ClosedStream]
    /\ queues' = Collect(queues, progress_queues', streams')

\* (a loop that ends on a terminal event only: while True)
StreamPollNoDeadline(s) ==
    /\ up
    /\ streams[s].pc = "loop"
    /\ IF queues[streams[s].queue] # <<>>
       THEN LET event == Head(queues[streams[s].queue]) IN
            /\ queues' = [queues EXCEPT ![streams[s].queue] = Tail(@)]
            /\ streams' = [streams EXCEPT ![s].last = event,
                                          ![s].pc = IF EventStatus(event) \in TerminalStatuses
                                                    THEN "break" ELSE "loop"]
            /\ UNCHANGED progress_queues
       ELSE /\ streams' = [streams EXCEPT ![s].pc = "sleeping"]
            /\ UNCHANGED <<progress_queues, queues>>
    /\ response' = NoResponse
    /\ UNCHANGED <<up, usedIds, store, files, runs, progress_callback>>

\* (a stream on a LifoQueue: get_nowait takes the event put last)
StreamPollLifo(s) ==
    /\ up
    /\ streams[s].pc = "loop"
    /\ IF streams[s].elapsed >= MaxTicks
       THEN Finally(s)
       ELSE IF queues[streams[s].queue] # <<>>
       THEN LET held == queues[streams[s].queue]
                event == held[Len(held)]
            IN /\ queues' = [queues EXCEPT ![streams[s].queue] = SubSeq(held, 1, Len(held) - 1)]
               /\ streams' = [streams EXCEPT ![s].last = event,
                                             ![s].pc = IF EventStatus(event) \in TerminalStatuses
                                                       THEN "break" ELSE "loop"]
               /\ UNCHANGED progress_queues
       ELSE /\ streams' = [streams EXCEPT ![s].pc = "sleeping"]
            /\ UNCHANGED <<progress_queues, queues>>
    /\ response' = NoResponse
    /\ UNCHANGED <<up, usedIds, store, files, runs, progress_callback>>

\* the while loop from its condition to the next suspension: the loop is
\* left when the lifetime is over, else an event is taken from the queue and
\* yielded, or the queue is empty and the generator sleeps
StreamPoll(s) ==
    /\ up
    /\ streams[s].pc = "loop"
    /\ IF streams[s].elapsed >= MaxTicks
       THEN Finally(s)
       ELSE IF queues[streams[s].queue] # <<>>
       THEN LET event == Head(queues[streams[s].queue]) IN
            /\ queues' = [queues EXCEPT ![streams[s].queue] = Tail(@)]
            /\ streams' = [streams EXCEPT ![s].last = event,
                                          ![s].pc = IF EventStatus(event) \in TerminalStatuses
                                                    THEN "break" ELSE "loop"]
            /\ UNCHANGED progress_queues
       ELSE /\ streams' = [streams EXCEPT ![s].pc = "sleeping"]
            /\ UNCHANGED <<progress_queues, queues>>
    /\ response' = NoResponse
    /\ UNCHANGED <<up, usedIds, store, files, runs, progress_callback>>

\* (a stream that writes the message it substitutes back to the project)
StreamWakeSavesDone(s) ==
    /\ up
    /\ streams[s].pc = "sleeping"
    /\ LET project == GetProject(store, streams[s].pid) IN
       IF project # Absent /\ project.status \in TerminalStatuses
       THEN /\ streams' = [streams EXCEPT ![s].elapsed = @ + 1,
                                          ![s].last = StatusEvent(project, MsgDone),
                                          ![s].pc = "break"]
            /\ store' = SaveProject(store, [project EXCEPT !.progress_message = MsgDone])
       ELSE /\ streams' = [streams EXCEPT ![s].elapsed = @ + 1,
                                          ![s].last = HeartbeatEvent,
                                          ![s].pc = "loop"]
            /\ UNCHANGED store
    /\ response' = NoResponse
    /\ UNCHANGED <<up, usedIds, files, progress_queues, queues, runs, progress_callback>>

\* after asyncio.sleep(1.5): the final status if the project has finished,
\* else a heartbeat
StreamWake(s) ==
    /\ up
    /\ streams[s].pc = "sleeping"
    /\ LET project == GetProject(store, streams[s].pid) IN
       IF project # Absent /\ project.status \in TerminalStatuses
       THEN streams' = [streams EXCEPT ![s].elapsed = @ + 1,
                                       ![s].last = StatusEvent(project, MsgDone),
                                       ![s].pc = "break"]
       ELSE streams' = [streams EXCEPT ![s].elapsed = @ + 1,
                                       ![s].last = HeartbeatEvent,
                                       ![s].pc = "loop"]
    /\ response' = NoResponse
    /\ UNCHANGED <<up, usedIds, store, files, progress_queues, queues, runs, progress_callback>>

\* the generator resumed after its last yield (the error of an unknown
\* project, or an event followed by break): return through finally
StreamClose(s) ==
    /\ up
    /\ streams[s].pc \in {"notfound", "break"}
    /\ Finally(s)
    /\ response' = NoResponse
    /\ UNCHANGED <<up, usedIds, store, files, runs, progress_callback>>

\* the steps of the stream in slot s
StreamStep(s) ==
    \/ \E id \in ProjectIds : StreamSubscribe(s, id)
    \/ StreamPoll(s)
    \/ StreamWake(s)
    \/ StreamClose(s)

(***************************************************************************)
(* update_progress in the executor thread against the event loop: the      *)
(* membership test and the indexing of the defaultdict are two steps of    *)
(* the thread, and a stream or a request can run between them. The first   *)
(* callback of a run (run_from_uploaded_file) is taken in two steps here.  *)
(***************************************************************************)
\* update_progress up to the membership test, which finds the key
UpdateProgressTest(r) ==
    /\ up
    /\ runs[r].pc = "load"
    /\ runs[r].pid \in DOMAIN progress_queues
    /\ LET project == ProjectAfterProgress(runs[r].project, 0, 0, MsgLoading)
       IN /\ runs' = [runs EXCEPT ![r].pc = "put", ![r].project = project]
          /\ store' = SaveProject(store, project)
    /\ response' = NoResponse
    /\ UNCHANGED <<up, usedIds, files, progress_queues, queues, streams, progress_callback>>

\* progress_queues[project_id].put(event): the defaultdict makes a Queue
\* for a key it does not hold; then the loader runs
UpdateProgressPut(r) ==
    /\ up
    /\ runs[r].pc = "put"
    /\ runs[r].pid \in DOMAIN progress_queues \/ QueueIds \ DOMAIN queues # {}
    /\ LET id == runs[r].pid
           event == ProgressEvent(runs[r].project.status, MsgLoading, 0, 0)
       IN /\ progress_queues' = RegistryWith(id)
          /\ queues' = [QueuesWith(id) EXCEPT ![progress_queues'[id]] = Append(@, event)]
    /\ \/ \E text \in LoaderTexts(runs[r].file_obj) :
            runs' = [runs EXCEPT ![r].pc = "init", ![r].raw_text = text,
                                 ![r].log = Append(@, [current |-> 0, total |-> 0,
                                                       src |-> "pipeline"])]
       \/ \E e \in LoaderRaises(runs[r].file_obj) :
            runs' = [runs EXCEPT ![r].pc = "raised", ![r].exc = e,
                                 ![r].log = Append(@, [current |-> 0, total |-> 0,
                                                       src |-> "pipeline"])]
    /\ response' = NoResponse
    /\ UNCHANGED <<up, usedIds, store, files, streams, progress_callback>>

(***************************************************************************)
(* The client: APIClient.wait_for_completion polls the project over        *)
(* GET /projects/{project_id} until it reads a terminal status. One action *)
(* per stretch of code between two calls of time.sleep.                    *)
(***************************************************************************)
\* GET /projects/{project_id}: the project, or 404
GetProjectEndpoint(id) ==
    IF id \in DOMAIN store
    THEN [op |-> "get", code |-> 200, project_id |-> id, status |-> store[id].status]
    ELSE [op |-> "get", code |-> 404, project_id |-> id, status |-> "none"]

\* the call of wait_for_completion(project_id): start_time is taken
WaitStart(id) ==
    /\ waits.pc \notin {"test", "sleeping"}
    /\ waits' = [NoWait EXCEPT !.pc = "test", !.pid = id]
    /\ response' = NoResponse
    /\ UNCHANGED <<up, usedIds, store, files, progress_queues, queues, streams, runs,
                   progress_callback>>

\* (a wait that returns the status of its first poll, whatever it is)
WaitPollReturnsAny ==
    /\ waits.pc = "test"
    /\ IF waits.elapsed >= MaxWait
       THEN /\ waits' = [waits EXCEPT !.pc = "timeout"]
            /\ response' = NoResponse
       ELSE IF ~up
       THEN /\ waits' = [waits EXCEPT !.pc = "failed"]
            /\ response' = NoResponse
       ELSE LET r == GetProjectEndpoint(waits.pid) IN
            /\ response' = r
            /\ IF r.code = 404
               THEN waits' = [waits EXCEPT !.pc = "notfound", !.seen = "none"]
               ELSE waits' = [waits EXCEPT !.pc = "returned", !.seen = r.status,
                                           !.result = r.status]
    /\ UNCHANGED <<up, usedIds, store, files, progress_queues, queues, streams, runs,
                   progress_callback>>

\* the while loop from its condition to the sleep: TimeoutError when
\* max_wait is over; else one poll with get_project, which raises when the
\* server does not answer and returns None for a 404
WaitPoll ==
    /\ waits.pc = "test"
    /\ IF waits.elapsed >= MaxWait
       THEN /\ waits' = [waits EXCEPT !.pc = "timeout"]
            /\ response' = NoResponse
       ELSE IF ~up
       THEN /\ waits' = [waits EXCEPT !.pc = "failed"]
            /\ response' = NoResponse
       ELSE LET r == GetProjectEndpoint(waits.pid) IN
            /\ response' = r
            /\ IF r.code = 404
               THEN waits' = [waits EXCEPT !.pc = "notfound", !.seen = "none"]
               ELSE IF r.status \in TerminalStatuses
               THEN waits' = [waits EXCEPT !.pc = "returned", !.seen = r.status,
                                           !.result = r.status]
               ELSE waits' = [waits EXCEPT !.pc = "sleeping", !.seen = r.status]
    /\ UNCHANGED <<up, usedIds, store, files, progress_queues, queues, streams, runs,
                   progress_callback>>

\* time.sleep(check_interval) is over
WaitSleep ==
    /\ waits.pc = "sleeping"
    /\ waits' = [waits EXCEPT !.pc = "test", !.elapsed = @ + 1]
    /\ response' = NoResponse
    /\ UNCHANGED <<up, usedIds, store, files, progress_queues, queues, streams, runs,
                   progress_callback>>

\* the steps of the client
WaitStep ==
    \/ \E id \in ProjectIds : WaitStart(id)
    \/ WaitPoll
    \/ WaitSleep

(***************************************************************************)
(* Specification.                                                          *)
(***************************************************************************)
Request ==
    \/ \E f \in UploadFiles : \E id \in ProjectIds : UploadSrs(id, f)
    \/ \E id \in ProjectIds : ProcessProject(id)
    \/ \E id \in ProjectIds : ResetProject(id)
    \/ \E id \in ProjectIds : DeleteProject(id)

\* The workers that can be the next to finish in slot r, with their results:
\* any pending worker with any result,
AnyCompletion(r) ==
    UNION { {<<role, result>> : result \in WorkerResults(role)} : role \in PendingRoles(r) }

\* or, when the generation service answers every call and the staggered
\* starts (0.2 s apart) decide the order, the first pending worker in launch
\* order with its text
FirstPending(r) == CHOOSE i \in 1 .. Len(Roles) :
                      /\ Roles[i] \in PendingRoles(r)
                      /\ \A j \in 1 .. Len(Roles) : Roles[j] \in PendingRoles(r) => i <= j

StaggeredCompletion(r) ==
    IF PendingRoles(r) = {} THEN {}
    ELSE {<<Roles[FirstPending(r)], result>> : result \in ReliableResults(Roles[FirstPending(r)])}

\* the steps of the task in slot r; completions are the workers that can
\* finish next, with their results
RunStep(r, completions) ==
    \/ TaskStart(r)
    \/ RunFromUploadedFile(r)
    \/ RunWorkflowInit(r)
    \/ ProcessSrs(r)
    \/ WorkersMsg1(r)
    \/ WorkersMsg2(r)
    \/ WorkersMsg3(r)
    \/ WorkersStart(r)
    \/ \E c \in completions : WorkerCompleted(r, c[1], c[2])
    \/ WorkersAllDone(r)
    \/ CompilerStart(r)
    \/ CompilerCompile(r)
    \/ RunWorkflowFinish(r)
    \/ TaskComplete(r)
    \/ TaskFailed(r)

Next ==
    \/ StartupEvent /\ UNCHANGED waits
    \/ Crash /\ UNCHANGED waits
    \/ Request /\ UNCHANGED waits
    \/ \E r \in RunIds : RunStep(r, StaggeredCompletion(r)) /\ UNCHANGED waits

Spec == Init /\ [][Next]_vars

(***************************************************************************)
(* The server with a single executor at work: the task in the first slot   *)
(* runs, tasks scheduled in the other slots wait.                          *)
(***************************************************************************)
NextSeq ==
    \/ StartupEvent /\ UNCHANGED waits
    \/ Crash /\ UNCHANGED waits
    \/ Request /\ UNCHANGED waits
    \/ RunStep(1, StaggeredCompletion(1)) /\ UNCHANGED waits

SpecSeq == Init /\ [][NextSeq]_vars

(***************************************************************************)
(* The same server and a client that waits for a project.                  *)
(***************************************************************************)
NextClient ==
    \/ StartupEvent /\ UNCHANGED waits
    \/ Crash /\ UNCHANGED waits
    \/ Request /\ UNCHANGED waits
    \/ RunStep(1, StaggeredCompletion(1)) /\ UNCHANGED waits
    \/ WaitStep

SpecClient == Init /\ [][NextClient]_vars

(***************************************************************************)
(* The progress stream of the first slot on an uploaded project, next to    *)
(* the requests on the project and to the task of the first slot. A stream  *)
(* opened before, whose consumer does not read on, may hold the second      *)
(* slot.                                                                    *)
(***************************************************************************)
InitStream ==
    /\ up = TRUE
    /\ usedIds = {1}
    /\ \E f \in UploadFiles :
         /\ store = (1 :> NewProject(1, f))
         /\ files = (1 :> f)
    /\ \/ /\ progress_queues = << >>
          /\ queues = << >>
          /\ streams = [s \in StreamIds |-> ClosedStream]
       \/ /\ progress_queues = (1 :> 1)
          /\ queues = (1 :> << >>)
          /\ streams = [s \in StreamIds |->
                          IF s = 2
                          THEN [ClosedStream EXCEPT
                                  !.pc = "loop", !.pid = 1, !.queue = 1,
                                  !.last = StatusEvent(store[1], MsgStarting)]
                          ELSE ClosedStream]
    /\ runs = [r \in RunIds |-> UnusedRun]
    /\ progress_callback = NoRun
    /\ response = NoResponse
    /\ waits = NoWait

\* no Queue object holds MaxQueue events yet
QueuesBelowBound == \A q \in DOMAIN queues : Len(queues[q]) < MaxQueue

NextStream ==
    \/ \E id \in ProjectIds : ProcessProject(id) /\ UNCHANGED waits
    \/ \E id \in ProjectIds : ResetProject(id) /\ UNCHANGED waits
    \/ \E id \in ProjectIds : DeleteProject(id) /\ UNCHANGED waits
    \/ QueuesBelowBound /\ RunStep(1, StaggeredCompletion(1)) /\ UNCHANGED waits
    \/ StreamStep(1) /\ UNCHANGED waits

SpecStream == InitStream /\ [][NextStream]_vars

\* no stream has been opened before
InitStreamAlone == InitStream /\ progress_queues = << >>

\* one stream only, whose generator is resumed whenever it can be: the event
\* loop runs it and its consumer keeps reading
SpecStreamFair == InitStreamAlone /\ [][NextStream]_vars /\ WF_vars(StreamStep(1) /\ UNCHANGED waits)

(***************************************************************************)
(* One run of the pipeline, from the state a process request on a freshly  *)
(* uploaded project leaves, with or without a stream's queue in the        *)
(* registry, for every completion order and every result of the workers.   *)
(***************************************************************************)
InitPipeline ==
    /\ up = TRUE
    /\ usedIds = {1}
    /\ \E f \in UploadFiles :
         /\ store = (1 :> [NewProject(1, f) EXCEPT !.status = "processing"])
         /\ files = (1 :> f)
    /\ \/ /\ progress_queues = << >>
          /\ queues = << >>
          /\ streams = [s \in StreamIds |-> ClosedStream]
       \/ /\ progress_queues = (1 :> 1)
          /\ queues = (1 :> << >>)
          /\ streams = [s \in StreamIds |->
                          IF s = 1
                          THEN [ClosedStream EXCEPT
                                  !.pc = "loop", !.pid = 1, !.queue = 1,
                                  !.last = StatusEvent(store[1], MsgStarting)]
                          ELSE ClosedStream]
    /\ runs = [r \in RunIds |->
                 IF r = 1 THEN [UnusedRun EXCEPT !.pc = "scheduled", !.pid = 1]
                 ELSE UnusedRun]
    /\ progress_callback = NoRun
    /\ response = [op |-> "process", code |-> 200, project_id |-> 1, status |-> "processing"]
    /\ waits = NoWait

NextPipeline == \E r \in RunIds : RunStep(r, AnyCompletion(r)) /\ UNCHANGED waits

SpecPipeline == InitPipeline /\ [][NextPipeline]_vars

\* the same when the task is run on: the executor runs its thread, and every
\* call of a worker to the generation service returns or fails (timeout
\* 120 s, two retries)
SpecPipelineFair == SpecPipeline /\ WF_vars(NextPipeline)

(***************************************************************************)
(* One run of the pipeline and the progress stream of its project: the     *)
(* stream is open when the task starts, or is opened and opened again       *)
(* while the task runs.                                                     *)
(***************************************************************************)
NextPipelineStream ==
    \/ RunStep(1, AnyCompletion(1)) /\ UNCHANGED waits
    \/ StreamStep(1) /\ UNCHANGED waits

SpecPipelineStream == InitPipeline /\ [][NextPipelineStream]_vars

(***************************************************************************)
(* One run of the pipeline in which callbacks can raise inside the nodes.  *)
(***************************************************************************)
NextFaulty ==
    \/ RunStep(1, AnyCompletion(1)) /\ UNCHANGED waits
    \/ RunStepRaises(1, AnyCompletion(1)) /\ UNCHANGED waits

SpecFaulty == InitPipeline /\ [][NextFaulty]_vars

(***************************************************************************)
(* Two tasks of one project, from the state two process requests in a row  *)
(* leave: both threads run in the executor and share the workflow object,  *)
(* and a progress callback may raise.                                      *)
(***************************************************************************)
InitTwoTasks ==
    /\ up = TRUE
    /\ usedIds = {1}
    /\ \E f \in UploadFiles :
         /\ store = (1 :> [NewProject(1, f) EXCEPT !.status = "processing"])
         /\ files = (1 :> f)
    /\ progress_queues = << >>
    /\ queues = << >>
    /\ streams = [s \in StreamIds |-> ClosedStream]
    /\ runs = [r \in RunIds |-> [UnusedRun EXCEPT !.pc = "scheduled", !.pid = 1]]
    /\ progress_callback = NoRun
    /\ response = [op |-> "process", code |-> 200, project_id |-> 1, status |-> "processing"]
    /\ waits = NoWait

NextTwoTasksFaulty ==
    \/ \E r \in RunIds : RunStep(r, StaggeredCompletion(r)) /\ UNCHANGED waits
    \/ \E r \in RunIds : RunStepRaises(r, StaggeredCompletion(r)) /\ UNCHANGED waits

SpecTwoTasksFaulty == InitTwoTasks /\ [][NextTwoTasksFaulty]_vars

(***************************************************************************)
(* Two projects and the task of each, from the state a process request on  *)
(* each of two freshly uploaded projects leaves, with or without an open   *)
(* stream of the second project: both threads run in the executor and      *)
(* share the pipeline object.                                              *)
(***************************************************************************)
InitTwoProjects ==
    /\ up = TRUE
    /\ usedIds = {1, 2}
    /\ \E f \in UploadFiles, g \in UploadFiles :
         /\ store = (1 :> [NewProject(1, f) EXCEPT !.status = "processing"])
                       @@ (2 :> [NewProject(2, g) EXCEPT !.status = "processing"])
         /\ files = (1 :> f) @@ (2 :> g)
    /\ \/ /\ progress_queues = << >>
          /\ queues = << >>
          /\ streams = [s \in StreamIds |-> ClosedStream]
       \/ /\ progress_queues = (2 :> 1)
          /\ queues = (1 :> << >>)
          /\ streams = [s \in StreamIds |->
                          IF s = 1
                          THEN [ClosedStream EXCEPT
                                  !.pc = "loop", !.pid = 2, !.queue = 1,
                                  !.last = StatusEvent(store[2], MsgStarting)]
                          ELSE ClosedStream]
    /\ runs = [r \in RunIds |-> [UnusedRun EXCEPT !.pc = "scheduled", !.pid = r]]
    /\ progress_callback = NoRun
    /\ response = [op |-> "process", code |-> 200, project_id |-> 2, status |-> "processing"]
    /\ waits = NoWait

NextTwoProjects ==
    \/ QueuesBelowBound /\ \E r \in RunIds : RunStep(r, StaggeredCompletion(r)) /\ UNCHANGED waits
    \/ StreamStep(1) /\ UNCHANGED waits

SpecTwoProjects == InitTwoProjects /\ [][NextTwoProjects]_vars

(***************************************************************************)
(* One run of the pipeline, the progress stream of its project and resets, *)
(* with the first progress callback of the run taken in two steps.         *)
(***************************************************************************)
NextRace ==
    \/ QueuesBelowBound /\ RunStep(1, StaggeredCompletion(1)) /\ UNCHANGED waits
    \/ UpdateProgressTest(1) /\ UNCHANGED waits
    \/ QueuesBelowBound /\ UpdateProgressPut(1) /\ UNCHANGED waits
    \/ StreamStep(1) /\ UNCHANGED waits
    \/ \E id \in ProjectIds : ResetProject(id) /\ UNCHANGED waits

SpecRace == InitPipeline /\ [][NextRace]_vars

(***************************************************************************)
(* The compiler node on its own: two states of the workflow, drawn from    *)
(* the states process_srs can hand to compiler_node when no callback is    *)
(* set, each compiled once.                                                *)
(***************************************************************************)
ProjectNames == {f.base : f \in UploadFiles}
SrsContents == UNION {LoaderTexts(f) : f \in UploadFiles}

\* the states the dispatcher can leave to the compiler
CompilerInputs ==
    { [InitialState(srs, name) EXCEPT
           !.requirements = q, !.architecture = a, !.api_spec = s,
           !.database_schema = d, !.all_workers_done = TRUE] :
        srs \in SrsContents, name \in ProjectNames,
        q \in WorkerResults("requirements"), a \in WorkerResults("architecture"),
        s \in WorkerResults("api_spec"), d \in WorkerResults("database_schema") }

InitCompile ==
    /\ up = TRUE
    /\ usedIds = {}
    /\ store = << >>
    /\ files = << >>
    /\ progress_queues = << >>
    /\ queues = << >>
    /\ streams = [s \in StreamIds |-> ClosedStream]
    /\ \E s1 \in CompilerInputs : \E s2 \in CompilerInputs :
         runs = [r \in RunIds |->
                   IF r = 1 THEN [UnusedRun EXCEPT !.pc = "compile", !.state = s1]
                   ELSE IF r = 2 THEN [UnusedRun EXCEPT !.pc = "compile", !.state = s2]
                   ELSE UnusedRun]
    /\ progress_callback = NoRun
    /\ response = NoResponse
    /\ waits = NoWait

NextCompile == \E r \in RunIds : CompilerCompile(r) /\ UNCHANGED waits

SpecCompile == InitCompile /\ [][NextCompile]_vars

(***************************************************************************)
(* Properties.                                                             *)
(***************************************************************************)
\* the tasks of a project that have started and not ended
ExecutingRuns(id) ==
    {r \in RunIds : runs[r].pid = id /\ runs[r].pc \notin {"unused", "scheduled", "ended"}}

\* C1: at most one run of a project executes at any time, also when a
\* process request arrives while the project is processing.
C1_AtMostOneActiveRun == \A id \in ProjectIds : Cardinality(ExecutingRuns(id)) <= 1

\* C2: a process request on a completed project answers "completed",
\* schedules no run and changes neither the store nor the registry.
C2_ProcessCompletedIsNoop ==
    [][\A id \in ProjectIds :
         (/\ response'.op = "process"
          /\ response'.project_id = id
          /\ id \in DOMAIN store
          /\ store[id].status = "completed")
         => (/\ response'.code = 200
             /\ response'.status = "completed"
             /\ UNCHANGED <<store, files, runs, progress_queues, queues, progress_callback>>)]_vars

C2_Witness ==
    /\ response.op = "process"
    /\ response.status = "completed"
    /\ response.project_id \in DOMAIN store
    /\ store[response.project_id].status = "completed"
    /\ store[response.project_id].tech_doc # None

\* C3: the status of a project changes only along uploaded -> processing,
\* processing -> completed, processing -> error, completed -> uploaded and
\* error -> uploaded.
ValidTransitions ==
    { <<"uploaded", "processing">>, <<"processing", "completed">>,
      <<"processing", "error">>, <<"completed", "uploaded">>, <<"error", "uploaded">> }

C3_OnlyValidTransitions ==
    [][\A id \in DOMAIN store \cap DOMAIN store' :
         store'[id].status # store[id].status
           => <<store[id].status, store'[id].status>> \in ValidTransitions]_vars

\* C4: startup recovery leaves no project in processing or parsing: each
\* such project gets status error and a message containing "interrupted",
\* every other project is left as it was, and no task is started.
C4_StartupRecovers ==
    [][(~up /\ up') =>
         /\ DOMAIN store' = DOMAIN store
         /\ \A id \in DOMAIN store :
              /\ store'[id].status \notin {"processing", "parsing"}
              /\ store[id].status \in {"processing", "parsing"}
                   => /\ store'[id].status = "error"
                      /\ Contains(store'[id].progress_message, "interrupted")
         /\ \A r \in RunIds : runs'[r].pc = "unused"]_vars

C4_Witness ==
    /\ up
    /\ \A r \in RunIds : runs[r].pc = "unused"
    /\ \E id \in DOMAIN store :
         /\ store[id].status = "error"
         /\ Contains(store[id].progress_message, "interrupted")
         /\ store[id].current_chunk = 50

\* the dispatcher of the frame has returned
DispatcherDone(f) == f.pc \in {"compiler", "compile", "final", "returned"}

\* the frame holds a compiled document
Compiled(f) == f.state # Absent /\ f.state.tech_doc # None

\* the roles of a workflow state whose result is an error
FailedRoles(state) == {role \in RoleSet : StartsWith(state[role], "Error:")}

\* no run-level error is set, the dispatcher ends with a result for each of
\* the four roles, and a run raises only before the workflow (in the loader)
C5_StateOk ==
    \A r \in RunIds :
      /\ runs[r].state # Absent => runs[r].state.error = None
      /\ DispatcherDone(runs[r]) => \A role \in RoleSet : runs[r].state[role] \in WorkerResults(role)
      /\ runs[r].pc = "raised" => runs[r].state = Absent

\* a turn of the dispatcher's loop records the result of one role and leaves
\* the others alone, the loop is left when all four are in, and a run that
\* has returned writes status completed
C5_StepOk ==
    \A r \in RunIds :
      /\ (runs[r].pc = "workers" /\ runs'[r].pc = "workers" /\ runs'[r] # runs[r])
           => \E role \in RoleSet :
                /\ runs[r].state[role] = None
                /\ runs'[r].state[role] \in WorkerResults(role)
                /\ \A other \in RoleSet \ {role} : runs'[r].state[other] = runs[r].state[other]
      /\ (runs[r].pc = "workers" /\ runs'[r].pc # "workers")
           => runs'[r].pc = "compiler" /\ runs[r].done = RoleSet
      /\ (runs[r].pc = "returned" /\ runs'[r].pc # "returned")
           => store'[runs[r].pid].status = "completed"

\* C5: a failed worker is an error result of its own role only: the other
\* workers still complete, the dispatcher records a result for all four
\* roles, no run-level error is set, and the run ends by writing status
\* completed, whichever workers fail.
C5_WorkerFailureIsolated == []C5_StateOk /\ [][C5_StepOk]_vars

C5_Witness ==
    \E id \in DOMAIN store :
      /\ store[id].status = "completed"
      /\ Contains(store[id].tech_doc, "timeout")
      /\ Contains(store[id].tech_doc, "content-of")

\* C6: the callbacks the dispatcher makes for worker completions are one per
\* completion and carry 25, 50, 75, 100 of 100 in that order, whichever
\* worker finishes and whether it failed.
ExpectedPercents == <<25, 50, 75, 100>>

IsWorkerCallback(e) == e.src = "worker"

C6_PercentByCompletionRank ==
    \A r \in RunIds :
      LET w == SelectSeq(runs[r].log, IsWorkerCallback) IN
        /\ Len(w) = Cardinality(runs[r].done)
        /\ \A i \in 1 .. Len(w) : w[i].current = ExpectedPercents[i] /\ w[i].total = 100

C6_Witness ==
    \E r \in RunIds :
      /\ runs[r].pc = "workers"
      /\ runs[r].done = RoleSet
      /\ Len(SelectSeq(runs[r].log, IsWorkerCallback)) = 4
      /\ runs[r].project.progress_message =
           MsgWorkerFailed(worker_labels["requirements"], <<"Error:", "timeout">>)

\* C7: the progress values a run reports never decrease.
C7_ProgressMonotone ==
    \A r \in RunIds :
      \A i \in 1 .. Len(runs[r].log) : \A j \in 1 .. Len(runs[r].log) :
        i < j => runs[r].log[i].current <= runs[r].log[j].current

\* the first place of a token in a text (0 if there is none)
IndexOf(s, tok) ==
    IF Contains(s, tok)
    THEN CHOOSE i \in 1 .. Len(s) : s[i] = tok /\ \A j \in 1 .. (i - 1) : s[j] # tok
    ELSE 0

Occurrences(s, tok) == Cardinality({i \in 1 .. Len(s) : s[i] = tok})

\* C8: the document is the header, then Technical Requirements, System
\* Design and Software Architecture (the database part last), each section
\* holding its own role's result, whatever the completion order and the
\* results were.
C8_CanonicalOrder ==
    \A r \in RunIds :
      Compiled(runs[r]) =>
        LET state == runs[r].state
            doc == state.tech_doc
            iq == IndexOf(doc, HdrRequirements)
            ia == IndexOf(doc, HdrDesign)
            is == IndexOf(doc, HdrSoftware)
            il == IndexOf(doc, HdrLinks)
        IN /\ \A h \in {HdrRequirements, HdrDesign, HdrSoftware, HdrLinks} :
                Occurrences(doc, h) = 1
           /\ 1 < iq /\ iq < ia /\ ia < is /\ is < il /\ il = Len(doc)
           /\ SubSeq(doc, 1, iq - 1) = DocHeader(state.project_name)
           /\ SubSeq(doc, iq + 1, ia - 2) = Format(state.requirements)
           /\ SubSeq(doc, ia + 1, is - 2) = Format(state.architecture)
           /\ SubSeq(doc, is + 1, il - 2) =
                Format(state.api_spec) \o Format(state.database_schema)

C8_Witness ==
    \E r \in RunIds :
      /\ Compiled(runs[r])
      /\ runs[r].pc = "final"
      /\ FailedRoles(runs[r].state) = {"requirements", "api_spec"}
      /\ runs[r].state.database_schema = <<"content-of", "database_schema">>

\* C9: where a role's result is missing or an error, the document holds a
\* placeholder in its place, not the error text and not a null value.
C9_PlaceholderForFailedRole ==
    \A r \in RunIds :
      Compiled(runs[r]) =>
        \A role \in RoleSet :
          (runs[r].state[role] = None \/ StartsWith(runs[r].state[role], "Error:"))
            => /\ ~Contains(runs[r].state.tech_doc, "Error:")
               /\ ~Contains(runs[r].state.tech_doc, "None")

\* t occurs in s as a run of consecutive tokens
Occurs(t, s) ==
    \E i \in 0 .. (Len(s) - Len(t)) : SubSeq(s, i + 1, i + Len(t)) = t

\* C10: the document is a function of the project name and the four
\* results: two compilations with the same name and results give the same
\* document, whatever else the workflow states hold, and the text of every
\* role that succeeded is in the document unchanged.
C10_CompileDeterministic ==
    /\ \A r1 \in RunIds : \A r2 \in RunIds :
         (/\ Compiled(runs[r1]) /\ Compiled(runs[r2])
          /\ runs[r1].state.project_name = runs[r2].state.project_name
          /\ \A role \in RoleSet : runs[r1].state[role] = runs[r2].state[role])
         => runs[r1].state.tech_doc = runs[r2].state.tech_doc
    /\ \A r \in RunIds :
         Compiled(runs[r]) =>
           \A role \in RoleSet \ FailedRoles(runs[r].state) :
             Occurs(runs[r].state[role], runs[r].state.tech_doc)

C10_Witness ==
    /\ Compiled(runs[1]) /\ Compiled(runs[2])
    /\ runs[1].state.project_name = runs[2].state.project_name
    /\ \A role \in RoleSet : runs[1].state[role] = runs[2].state[role]
    /\ runs[1].state.srs_content # runs[2].state.srs_content
    /\ FailedRoles(runs[1].state) = {"architecture"}

(***************************************************************************)
(* Properties of the progress stream.                                      *)
(***************************************************************************)
\* the step starts the stream of slot s
Subscribes(s) == streams[s].pc = "closed" /\ streams'[s].pc # "closed"

\* the step makes the stream of slot s yield an event
Yields(s) == streams'[s] # streams[s] /\ streams'[s].pc \in {"notfound", "loop", "break"}

\* C11: a stream on a project id that is not in the store yields the error
\* event "Project not found" and nothing else: its next step ends it; the
\* subscription creates no entry in the registry, and there is none for the
\* id when the stream has ended.
C11_UnknownProjectStream ==
    [][\A s \in StreamIds :
         /\ (Subscribes(s) /\ streams'[s].pid \notin DOMAIN store)
              => /\ streams'[s].pc = "notfound"
                 /\ streams'[s].last = NotFoundEvent
                 /\ streams'[s].queue = NoQueue
                 /\ UNCHANGED <<progress_queues, queues>>
         /\ (streams[s].pc = "notfound" /\ streams'[s] # streams[s])
              => /\ streams'[s] = ClosedStream
                 /\ streams[s].pid \notin DOMAIN progress_queues']_vars

C11_Witness ==
    \E s \in StreamIds :
      /\ streams[s].pc = "notfound"
      /\ streams[s].last = NotFoundEvent
      /\ streams[s].pid \notin DOMAIN store
      /\ streams[s].pid \notin DOMAIN progress_queues

\* C12: the first event of a stream on an existing project is a progress
\* event with the status, message and step fields of the project as the
\* store holds them when the stream starts (a default text for no message,
\* 0 for no step); no event is taken from the queue before it.
C12_InitialStateFirst ==
    [][\A s \in StreamIds :
         (Subscribes(s) /\ streams'[s].pid \in DOMAIN store)
           => LET project == store[streams'[s].pid] IN
              /\ streams'[s].pc = "loop"
              /\ streams'[s].last.event = "progress"
              /\ streams'[s].last.data.status = project.status
              /\ streams'[s].last.data.progress_message =
                   (IF project.progress_message = None THEN MsgStarting
                    ELSE project.progress_message)
              /\ streams'[s].last.data.current_chunk =
                   (IF project.current_chunk = NoneInt THEN 0 ELSE project.current_chunk)
              /\ streams'[s].last.data.total_chunks =
                   (IF project.total_chunks = NoneInt THEN 0 ELSE project.total_chunks)
              /\ streams'[s].queue = progress_queues'[streams'[s].pid]
              /\ \A q \in DOMAIN queues : q \in DOMAIN queues' /\ queues'[q] = queues[q]]_vars

C12_Witness ==
    \E s \in StreamIds :
      /\ streams[s].pc = "loop"
      /\ streams[s].elapsed = 0
      /\ streams[s].last.event = "progress"
      /\ streams[s].last.data.status = "parsing"
      /\ streams[s].pid \in DOMAIN store
      /\ streams[s].last = StatusEvent(store[streams[s].pid], MsgStarting)
      /\ queues[streams[s].queue] # << >>

\* the last event the stream of slot s yielded carries a terminal status
LastIsTerminal(s) ==
    /\ streams[s].pc # "closed"
    /\ streams[s].last.event = "progress"
    /\ streams[s].last.data.status \in TerminalStatuses

\* C13: once a stream has yielded an event with status completed or error,
\* it yields no further event.
C13_TerminalEventIsLast ==
    [][\A s \in StreamIds : LastIsTerminal(s) => ~Yields(s)]_vars

\* the stream of slot s is open on a project that has been deleted, or whose
\* queue has been taken out of the registry
Detached(s) ==
    /\ streams[s].pc \in {"loop", "sleeping"}
    /\ \/ streams[s].pid \notin DOMAIN store
       \/ streams[s].pid \notin DOMAIN progress_queues

\* C14: a stream whose project has been reset or deleted ends because of
\* that: it does not yield a heartbeat and wait on for the lifetime to
\* pass.
C14_ResetOrDeleteEndsStream ==
    [][\A s \in StreamIds :
         Detached(s) => ~(Yields(s) /\ streams'[s].pc = "loop"
                                    /\ streams'[s].last = HeartbeatEvent)]_vars

\* the stream of slot s is open: its generator has started and not returned
Open(s) == streams[s].pc # "closed"

\* C15: a stream lives for a bounded time: its clock never passes the
\* maximum lifetime, and a stream that finds the lifetime over yields no
\* event and closes, whatever the status of its project and whether or not
\* a task runs; a stream that keeps being served is closed in the end.
C15_StreamTerminates ==
    /\ [](\A s \in StreamIds : streams[s].elapsed <= MaxTicks)
    /\ [][\A s \in StreamIds :
            (Open(s) /\ streams[s].pc = "loop" /\ streams[s].elapsed >= MaxTicks
               /\ streams'[s] # streams[s])
              => /\ streams'[s] = ClosedStream
                 /\ streams[s].pid \notin DOMAIN progress_queues']_vars
    /\ (Open(1) ~> ~Open(1))

\* the lifetime of a stream is over while the task of its project is still
\* working and the project has no terminal status
C15_Witness ==
    \E s \in StreamIds :
      /\ streams[s].pc = "loop"
      /\ streams[s].elapsed = MaxTicks
      /\ streams[s].last = HeartbeatEvent
      /\ streams[s].pid \in DOMAIN store
      /\ store[streams[s].pid].status \notin TerminalStatuses \cup {"uploaded"}
      /\ \E r \in RunIds : runs[r].pid = streams[s].pid /\ runs[r].pc \notin {"unused", "scheduled"}

\* the step makes the stream of slot s yield a heartbeat
YieldsHeartbeat(s) == Yields(s) /\ streams'[s].last = HeartbeatEvent

\* C16: a stream that has slept one interval on an empty queue yields a
\* heartbeat when its project has no terminal status; a heartbeat is yielded
\* neither while the queue of the stream holds an event nor after an event
\* with a terminal status.
C16_HeartbeatOnIdle ==
    [][\A s \in StreamIds :
         /\ (streams[s].pc = "sleeping" /\ streams'[s] # streams[s]
               /\ streams[s].pid \in DOMAIN store
               /\ store[streams[s].pid].status \notin TerminalStatuses)
              => streams'[s].last = HeartbeatEvent
         /\ YieldsHeartbeat(s)
              => /\ queues[streams[s].queue] = << >>
                 /\ ~LastIsTerminal(s)]_vars

\* C17: an event a task produces while no stream is open on its project is
\* kept for a later stream: a step of a task that updates the progress of
\* its project puts the event on the queue of the project, which is created
\* if there is none.
C17_EventsBuffered ==
    [][\A r \in RunIds :
         (runs[r].pc \notin {"unused", "scheduled"} /\ runs'[r] # runs[r]
            /\ runs[r].pid \in DOMAIN store /\ runs[r].pid \in DOMAIN store'
            /\ store'[runs[r].pid] # store[runs[r].pid])
           => /\ runs[r].pid \in DOMAIN progress_queues'
              /\ queues'[progress_queues'[runs[r].pid]] # << >>
              /\ LET event == queues'[progress_queues'[runs[r].pid]]
                              [Len(queues'[progress_queues'[runs[r].pid]])]
                 IN /\ event.event = "progress"
                    /\ event.data.status = store'[runs[r].pid].status]_vars

\* C18: every entry of the registry of queues is the entry of a project
\* that the store holds.
C18_RegistryWithinStore == DOMAIN progress_queues \subseteq DOMAIN store

\* the step is a reset request answered with 200
ResetDone == response'.op = "reset" /\ response'.code = 200

\* the project as a reset leaves it, but for its message
ResetState(project) ==
    /\ project.status = "uploaded"
    /\ project.parsed_srs = None
    /\ project.tech_doc = None
    /\ project.current_chunk = NoneInt
    /\ project.total_chunks = NoneInt

\* C19 as stated: a reset of an existing project leaves status uploaded, no
\* parsed requirements, no document, no step counts, no message, and no
\* entry of the project in the registry.
C19_ResetClearsAll ==
    [][ResetDone =>
         /\ response'.project_id \in DOMAIN store'
         /\ ResetState(store'[response'.project_id])
         /\ store'[response'.project_id].progress_message = None
         /\ response'.project_id \notin DOMAIN progress_queues']_vars

\* C19: a reset of an existing project, whatever its status, leaves status
\* uploaded, no parsed requirements, no document, no step counts, the
\* message "Ready to process", and no entry of the project in the registry;
\* nothing else of the project changes.
C19_ResetState ==
    [][ResetDone =>
         /\ response'.project_id \in DOMAIN store
         /\ response'.project_id \in DOMAIN store'
         /\ ResetState(store'[response'.project_id])
         /\ store'[response'.project_id].progress_message = MsgReady
         /\ store'[response'.project_id] =
              [store[response'.project_id] EXCEPT
                 !.status = "uploaded", !.progress_message = MsgReady,
                 !.current_chunk = NoneInt, !.total_chunks = NoneInt,
                 !.parsed_srs = None, !.tech_doc = None]
         /\ response'.project_id \notin DOMAIN progress_queues']_vars

\* a reset has just been answered for a project whose task is at work and
\* whose stream is open: the stream has lost its entry in the registry
C19_Witness ==
    /\ response.op = "reset"
    /\ response.code = 200
    /\ response.project_id \in DOMAIN store
    /\ store[response.project_id].progress_message = MsgReady
    /\ store[response.project_id].status = "uploaded"
    /\ response.project_id \notin DOMAIN progress_queues
    /\ \E s \in StreamIds : /\ streams[s].pc \in {"loop", "sleeping"}
                            /\ streams[s].pid = response.project_id
    /\ \E r \in RunIds : /\ runs[r].pid = response.project_id
                         /\ runs[r].pc \notin {"unused", "scheduled"}

\* the task of slot r is at work on a project that a reset has put back to
\* uploaded
ResetUnderRun(r) ==
    /\ runs[r].pc \notin {"unused", "scheduled"}
    /\ runs[r].pid \in DOMAIN store
    /\ store[runs[r].pid].status = "uploaded"

\* C20: a reset does not touch the tasks; a task whose project has been
\* reset goes on, and its final write replaces the reset state: status
\* completed with the parsed requirements and the document of the run, or
\* status error.
C20_ResetDoesNotCancel ==
    [][/\ ResetDone => runs' = runs
       /\ \A r \in RunIds :
            (ResetUnderRun(r) /\ runs'[r] # runs[r])
              => /\ runs[r].pc = "returned"
                   => /\ store'[runs[r].pid].status = "completed"
                      /\ store'[runs[r].pid].tech_doc = runs[r].result.tech_doc
                      /\ store'[runs[r].pid].parsed_srs = runs[r].result.parsed_srs
                 /\ runs[r].pc = "raised"
                   => store'[runs[r].pid].status = "error"
                 /\ runs[r].pid \in DOMAIN store'
                 /\ store'[runs[r].pid].status # "uploaded"
                      \/ runs'[r].pc \notin {"unused", "scheduled"}]_vars

\* a reset has just been answered while the task of the project has its
\* result and has not yet written it
C20_Witness ==
    /\ response.op = "reset"
    /\ response.code = 200
    /\ \E r \in RunIds : /\ ResetUnderRun(r)
                         /\ runs[r].pid = response.project_id
                         /\ runs[r].pc = "returned"

(***************************************************************************)
(* Properties of the writers of a project record.                          *)
(***************************************************************************)
\* the step is a step of a task that changes the stored record of project id
TaskWrites(id) ==
    /\ response' = NoResponse
    /\ runs' # runs
    /\ id \in DOMAIN store
    /\ id \in DOMAIN store'
    /\ store'[id] # store[id]

\* the frames whose write of project id would be based on the stored record:
\* they read the record in this step, or the copy they hold is the record
FreshWriters(id) ==
    {r \in RunIds : /\ runs[r].pid = id
                    /\ \/ runs[r].pc \in {"scheduled", "raised"}
                       \/ runs[r].project = store[id]}

\* C21: a task never writes a project record from a copy that is older than
\* the record: when a task changes the record of a project, the copy it
\* writes from is the record as the store holds it, so nothing saved by a
\* process request, a reset or the startup recovery is lost.
C21_NoStaleWrite ==
    [][\A id \in ProjectIds : TaskWrites(id) => FreshWriters(id) # {}]_vars

(***************************************************************************)
(* Properties of a run whose workflow state carries an error.              *)
(***************************************************************************)
\* the workflow of slot r has recorded a run-level error
RunLevelError(r) ==
    /\ runs[r].state # Absent
    /\ runs[r].state.error # None

\* C22: a run whose dispatcher or compiler node has set a run-level error
\* never returns a result and never leaves its project completed; it ends
\* by storing status error with a message that carries the error of the
\* node, and the current and total step the store held from the run's last
\* write are kept.
C22_RunLevelErrorEndsInError ==
    /\ [](\A r \in RunIds :
            RunLevelError(r)
              => /\ runs[r].pc # "returned"
                 /\ store[runs[r].pid].status # "completed")
    /\ [][\A r \in RunIds :
            (RunLevelError(r) /\ runs[r].pc = "raised" /\ runs'[r] # runs[r])
              => /\ store'[runs[r].pid].status = "error"
                 /\ store'[runs[r].pid].progress_message =
                      MsgError(<<"Workflow", "failed:">> \o runs[r].state.error)
                 /\ store'[runs[r].pid].current_chunk = store[runs[r].pid].current_chunk
                 /\ store'[runs[r].pid].total_chunks = store[runs[r].pid].total_chunks
                 /\ store'[runs[r].pid].current_chunk # NoneInt
                 /\ store'[runs[r].pid].total_chunks = 100]_vars

\* a run has ended in status error after its dispatcher failed: the
\* compiler's callbacks were the last to write the steps
C22_Witness ==
    /\ 1 \in DOMAIN store
    /\ store[1].status = "error"
    /\ \E e \in SaveExceptions :
         store[1].progress_message =
           MsgError(<<"Workflow", "failed:">> \o MsgParallelFailed(e))
    /\ store[1].current_chunk = 100
    /\ store[1].total_chunks = 100
    /\ runs[1].pc \in {"unused", "ended"}

(***************************************************************************)
(* Properties of the dispatcher and of the order of the nodes.             *)
(***************************************************************************)
\* the dispatcher of slot r waits for its workers
Dispatching(r) == runs[r].pc = "workers"

\* C23: the dispatcher does not wait forever: when every call of a worker
\* returns or fails, a dispatcher that has launched its workers returns, and
\* it returns only when all four workers have finished, each with a result
\* recorded (a text or an error text).
C23_DispatchTerminates ==
    /\ [][\A r \in RunIds :
            (Dispatching(r) /\ ~Dispatching(r)')
              => /\ runs[r].done = RoleSet
                 /\ runs'[r].pc = "compiler"
                 /\ \A role \in RoleSet : runs'[r].state[role] \in WorkerResults(role)]_vars
    /\ \A r \in RunIds : Dispatching(r) ~> (runs[r].pc = "compiler" /\ runs[r].done = RoleSet)

\* the dispatcher has returned after a failed call of one worker and an
\* empty answer to another
C23_Witness ==
    \E r \in RunIds :
      /\ runs[r].pc = "compiler"
      /\ runs[r].done = RoleSet
      /\ runs[r].completed_count = total_workers
      /\ StartsWith(runs[r].state.requirements, "Error:")
      /\ runs[r].state.database_schema = << >>

(***************************************************************************)
(* Properties of the events of one run.                                    *)
(***************************************************************************)
\* the place of an event in the order in which a run of the pipeline puts
\* its events: the callbacks of run_from_uploaded_file, _run_workflow and
\* parallel_workers_node in program order, the workers by the percentage of
\* their completion, then the compiler, _run_workflow and the task's last
\* event
EventRank(event) ==
    LET d == event.data IN
    IF d.status = "completed" THEN 15
    ELSE IF d.status = "error" THEN 16
    ELSE IF d.progress_message = MsgLoading THEN 1
    ELSE IF d.progress_message = MsgInitializing THEN 2
    ELSE IF d.progress_message = Msg1 THEN 3
    ELSE IF d.progress_message = MsgParallel THEN 6
    ELSE IF d.progress_message = Msg3 THEN 5
    ELSE IF d.progress_message = MsgCompiling THEN 12
    ELSE IF d.progress_message = MsgCompiled THEN 13
    ELSE IF d.progress_message = MsgWorkflowCompleted THEN 14
    ELSE IF d.current_chunk = 15 THEN 4
    ELSE IF StartsWith(d.progress_message, "All") THEN 11
    ELSE 6 + (d.current_chunk \div 25)

\* the events of queue q are in the order of the run, none of them twice
InRunOrder(q) ==
    \A i \in 1 .. Len(q) : \A j \in 1 .. Len(q) :
       i < j => EventRank(q[i]) < EventRank(q[j])

\* the step makes the stream of slot s take an event from its queue
Takes(s) ==
    /\ streams[s].pc = "loop"
    /\ streams[s].queue \in DOMAIN queues'
    /\ queues'[streams[s].queue] # queues[streams[s].queue]
    /\ Len(queues'[streams[s].queue]) < Len(queues[streams[s].queue])

\* C24: one consumer gets the events of a run in the order of the run: the
\* queue holds them in that order, none twice; the stream takes the oldest
\* event the queue holds, yields it and removes it, so no event is yielded
\* twice and none after an event that was put later; what is put next goes
\* behind the events still held.
C24_ProducerOrder ==
    /\ [](\A q \in DOMAIN queues : InRunOrder(queues[q]))
    /\ [][\A s \in StreamIds :
            Takes(s)
              => /\ streams'[s].last = Head(queues[streams[s].queue])
                 /\ queues'[streams[s].queue] = Tail(queues[streams[s].queue])
                 /\ \A i \in 1 .. Len(queues'[streams[s].queue]) :
                      EventRank(streams'[s].last) < EventRank(queues'[streams[s].queue][i])]_vars
    /\ [][\A q \in DOMAIN queues :
            (q \in DOMAIN queues' /\ Len(queues'[q]) > Len(queues[q]))
              => SubSeq(queues'[q], 1, Len(queues[q])) = queues[q]]_vars

\* the stream has yielded the event of the second worker to finish, taken
\* from a queue that holds later events of the run
C24_Witness ==
    \E s \in StreamIds :
      /\ streams[s].pc = "loop"
      /\ streams[s].last.event = "progress"
      /\ streams[s].last.data.current_chunk = 50
      /\ EventRank(streams[s].last) = 8
      /\ Len(queues[streams[s].queue]) >= 2

(***************************************************************************)
(* Properties of a whole run.                                              *)
(***************************************************************************)
\* the project of the run has a terminal status
Terminal(id) == id \in DOMAIN store /\ store[id].status \in TerminalStatuses

\* C25: after an accepted process request on an uploaded project, with
\* every call of a worker returning or failing and no reset or deletion,
\* the project reaches status completed or error and keeps it; it ends in
\* error only when the document could not be loaded, and a completed
\* project holds a compiled document that is not empty.
C25_ProcessReachesTerminal ==
    /\ <>[](\A id \in DOMAIN store : Terminal(id))
    /\ [](\A id \in DOMAIN store :
            /\ store[id].status = "error" => LoaderRaises(files[id]) # {}
            /\ store[id].status = "completed"
                 => /\ store[id].tech_doc # None
                    /\ store[id].tech_doc # << >>
                    /\ Contains(store[id].tech_doc, HdrRequirements)
                    /\ store[id].parsed_srs # None)

\* the run of spec.txt has ended: completed, with a document
C25_Witness ==
    /\ Terminal(1)
    /\ store[1].status = "completed"
    /\ store[1].file_name = <<"spec", "txt">>
    /\ Len(store[1].tech_doc) > 1
    /\ \A r \in RunIds : runs[r].pc \in {"unused", "ended"}

(***************************************************************************)
(* Properties of the requests.                                             *)
(***************************************************************************)
\* the step is a request op on a project, right after the same request on
\* the same project
Repeats(op) ==
    /\ response.op = op
    /\ response'.op = op
    /\ response'.project_id = response.project_id

\* the tasks that have been started and have not ended
StartedRuns == {r \in RunIds : runs[r].pc \notin {"unused", "ended"}}

\* C26: a process request right after a process request on the same
\* project, and a reset right after a reset, changes nothing: the project
\* record, the registry of queues and the tasks started are as the first
\* request left them.
C26_RepeatedRequestIsNoop ==
    [][(Repeats("process") \/ Repeats("reset"))
         => /\ store' = store
            /\ progress_queues' = progress_queues
            /\ Cardinality(StartedRuns') = Cardinality(StartedRuns)]_vars

(***************************************************************************)
(* Frame of the progress stream.                                           *)
(***************************************************************************)
\* C27: no step of a stream (subscription, initial event, event taken from
\* the queue, heartbeat, final status, error of an unknown project, close)
\* changes a project record, an uploaded file or a task.
C27_StreamLeavesStore ==
    [][streams' # streams => UNCHANGED <<store, files, runs, usedIds>>]_vars

\* a stream has yielded the final status of a failed project after a sleep
C27_Witness ==
    \E s \in StreamIds :
      /\ streams[s].pc = "break"
      /\ streams[s].elapsed > 0
      /\ streams[s].pid \in DOMAIN store
      /\ store[streams[s].pid].status = "error"
      /\ streams[s].last = StatusEvent(store[streams[s].pid], MsgDone)

(***************************************************************************)
(* Properties of the stored records.                                       *)
(***************************************************************************)
\* a message that describes a failure: the error text of a run, or the
\* text of the startup recovery
DescribesFailure(message) ==
    /\ message # None
    /\ message # << >>
    /\ \/ message = MsgInterrupted
       \/ StartsWith(message, "[x]")

\* C28: a project with status error has a progress message that is not
\* empty and describes the failure: the error text of the run, or the text
\* of the interrupted processing.
C28_ErrorHasMessage ==
    \A id \in DOMAIN store :
       store[id].status = "error" => DescribesFailure(store[id].progress_message)

(***************************************************************************)
(* Properties of the store against the queue.                              *)
(***************************************************************************)
\* the record holds the four values of the event
SameValues(project, event) ==
    /\ project.status = event.data.status
    /\ project.progress_message = event.data.progress_message
    /\ project.current_chunk = event.data.current_chunk
    /\ project.total_chunks = event.data.total_chunks

\* the same, a step the record does not hold being 0 in the event
SavedAs(project, event) ==
    /\ project.status = event.data.status
    /\ project.progress_message = event.data.progress_message
    /\ OrZero(project.current_chunk) = event.data.current_chunk
    /\ OrZero(project.total_chunks) = event.data.total_chunks

\* the step puts an event on the queue of project id
Puts(id) ==
    /\ id \in DOMAIN progress_queues
    /\ progress_queues[id] \in DOMAIN queues
    /\ progress_queues[id] \in DOMAIN queues'
    /\ Len(queues'[progress_queues[id]]) > Len(queues[progress_queues[id]])

EntersCompiler(r) == runs[r].pc # "compiler" /\ runs'[r].pc = "compiler"

\* C30: when a run enters the compiler node, its four workers have
\* completed and the result of each is recorded in the state; so too when
\* the dispatcher has recorded an error of the run.
C30_CompilerAfterWorkers ==
    [][\A r \in RunIds :
          EntersCompiler(r)
            => /\ runs'[r].done = RoleSet
               /\ \A role \in RoleSet : runs'[r].state[role] # None]_vars

(***************************************************************************)
(* Properties of two runs on the shared pipeline.                          *)
(***************************************************************************)
\* the step is a step of the thread of slot r
Steps(r) ==
    /\ runs[r].pc \notin {"unused", "ended"}
    /\ \/ runs'[r].pc # runs[r].pc
       \/ runs'[r].done # runs[r].done

\* the step leaves the record and the queue of project id as they are
LeavesProject(id) ==
    /\ id \in DOMAIN store' /\ store'[id] = store[id]
    /\ id \in DOMAIN progress_queues
         => queues'[progress_queues[id]] = queues[progress_queues[id]]

\* C31: with the runs of two projects in the executor at once, a step of a
\* run changes the record and the queue of its own project only: nothing a
\* run of project A produces is saved to project B or put on B's queue.
C31_OwnProjectOnly ==
    [][\A r \in RunIds :
          Steps(r) => \A id \in DOMAIN store : id # runs[r].pid => LeavesProject(id)]_vars

(***************************************************************************)
(* Properties of a stream across runs.                                     *)
(***************************************************************************)
\* the step makes the stream of slot s take a terminal event from its queue
\* and yield it
TakesTerminal(s) ==
    /\ Takes(s)
    /\ streams'[s].last.event = "progress"
    /\ streams'[s].last.data.status \in TerminalStatuses

\* a process request has been accepted for the project since the last write
\* of any task: only process_project stores the status processing, and a
\* terminal event is put right after a terminal status has been stored
NewRunStarted(id) == id \in DOMAIN store /\ store[id].status = "processing"

\* C32: a stream yields no terminal event of an earlier run once a new run
\* of the project has been started: when it takes a completed or error
\* event from the queue, no process request has been accepted after the
\* run that put the event had stored its terminal status.
C32_TerminalOfLatestRun ==
    [][\A s \in StreamIds : TakesTerminal(s) => ~NewRunStarted(streams[s].pid)]_vars

(***************************************************************************)
(* Properties of the registry of queues.                                   *)
(***************************************************************************)
\* the step makes an entry for project id in the registry
CreatesEntry(id) == id \notin DOMAIN progress_queues /\ id \in DOMAIN progress_queues'

\* the step is the subscription of a stream to project id
SubscribesTo(id) ==
    \E s \in StreamIds : Subscribes(s) /\ streams'[s].pc = "loop" /\ streams'[s].pid = id

\* a stream of project id is open
HasOpenStream(id) ==
    \E s \in StreamIds : streams[s].pc # "closed" /\ streams[s].pid = id

\* C33: only the subscription of a stream makes an entry in the registry:
\* the test and the put of update_progress in the executor thread never
\* make one, whatever a stream's close or a reset does in between; so
\* every entry has an open stream of its project that will remove it.
C33_OnlySubscriptionCreates ==
    /\ [][\A id \in ProjectIds : CreatesEntry(id) => SubscribesTo(id)]_vars
    /\ [](\A id \in DOMAIN progress_queues : HasOpenStream(id))

(***************************************************************************)
(* Properties of a stream and a finished project.                          *)
(***************************************************************************)
\* the step ends the stream of slot s
Closes(s) == streams[s].pc # "closed" /\ streams'[s].pc = "closed"

\* C34: a stream of a project that has reached a terminal status yields an
\* event with that status before it closes, whoever has taken the terminal
\* event from the queue or removed the entry: when a stream that found its
\* project ends and the project is completed or in error, the last event
\* of the stream has the status of the project.
C34_TerminalReported ==
    [][\A s \in StreamIds :
          (/\ Closes(s)
           /\ streams[s].pc # "notfound"
           /\ streams[s].pid \in DOMAIN store
           /\ store[streams[s].pid].status \in TerminalStatuses)
            => EventStatus(streams[s].last) = store[streams[s].pid].status]_vars

(***************************************************************************)
(* Properties of a completed project.                                      *)
(***************************************************************************)
\* the record holds a result: a document that get_techdoc returns, and the
\* parsed requirements
HasResult(project) ==
    /\ project.tech_doc # None
    /\ project.tech_doc # << >>
    /\ project.parsed_srs # None

\* C35: a stored project with status completed holds its compiled document
\* and its parsed requirements, in every state the server reaches with
\* requests, resets, restarts and tasks at work.
C35_CompletedHasResult ==
    \A id \in DOMAIN store : store[id].status = "completed" => HasResult(store[id])

\* a completed project, stored by a task whose frame the workflow object
\* still refers to, while another task of the project is at work
C35_Witness ==
    \E id \in DOMAIN store :
      /\ store[id].status = "completed"
      /\ HasResult(store[id])
      /\ \E r \in RunIds : runs[r].pid = id /\ runs[r].pc \notin {"unused", "ended", "scheduled"}

\* the step is a reset or a deletion that the server accepts
ResetOrDelete == response'.op \in {"reset", "delete"} /\ response'.code = 200

\* C36: a project stored as completed stays completed until it is reset or
\* deleted: no progress write, completion write or error write of a task,
\* and no other request, changes its status.
C36_CompletedStays ==
    [][\A id \in DOMAIN store :
          (store[id].status = "completed" /\ ~ResetOrDelete)
            => id \in DOMAIN store' /\ store'[id].status = "completed"]_vars

(***************************************************************************)
(* Properties of a deleted project.                                        *)
(***************************************************************************)
\* the step is an upload that the server accepts
Uploads == response'.op = "upload" /\ response'.code = 200

\* C37: once a project has been deleted, no step of a task that was at work
\* for it stores it again: a project comes into the store by an upload
\* only.
C37_DeletedStaysDeleted ==
    [][\A id \in ProjectIds :
          (id \notin DOMAIN store /\ id \in DOMAIN store') => Uploads]_vars

(***************************************************************************)
(* Properties of the startup recovery.                                     *)
(***************************************************************************)
\* the step is the startup of the server
StartsUp == ~up /\ up'

\* C38: the startup recovery run twice gives the store that one run gives,
\* and it leaves every project that is uploaded, completed or in error as
\* it is: of every store the server reaches, and at every startup.
C38_RecoveryIdempotent ==
    /\ [](\A id \in DOMAIN store :
            /\ Recover(Recover(store[id])) = Recover(store[id])
            /\ store[id].status \in {"uploaded", "completed", "error"}
                 => Recover(store[id]) = store[id])
    /\ [][StartsUp
            => /\ DOMAIN store' = DOMAIN store
               /\ \A id \in DOMAIN store :
                    /\ store'[id] = Recover(Recover(store[id]))
                    /\ store[id].status \in {"uploaded", "completed", "error"}
                         => store'[id] = store[id]]_vars

\* the server has started again with a project that was being processed
\* when it stopped: the project is in error with the text of the recovery
C38_Witness ==
    /\ up
    /\ \E id \in DOMAIN store :
         /\ store[id].status = "error"
         /\ store[id].progress_message = MsgInterrupted
         /\ Recover(store[id]) = store[id]

(***************************************************************************)
(* Properties of the events of a run.                                      *)
(***************************************************************************)
\* the event the step puts on the queue of project id
PutEvent(id) == queues'[progress_queues[id]][Len(queues'[progress_queues[id]])]

\* the step is the last of a task: the completion or the except branch
TaskEnds == \E r \in RunIds : runs[r].pc \in {"returned", "raised"} /\ runs'[r].pc # runs[r].pc

\* C39: a run puts at most one event with a terminal status on a queue, as
\* its last event: an event with status completed or error is put by the
\* step that ends a task, and every event put by a progress callback has a
\* status that is not terminal.
C39_TerminalEventEndsRun ==
    [][\A id \in DOMAIN progress_queues :
          (Puts(id) /\ EventStatus(PutEvent(id)) \in TerminalStatuses) => TaskEnds]_vars

(***************************************************************************)
(* Properties of the client's wait.                                        *)
(***************************************************************************)
\* the step ends the wait in the way pc
EndsIn(pc) == waits.pc = "test" /\ waits'.pc = pc

\* C40: wait_for_completion returns completed or error only, the status
\* its last poll has read on the project; it ends with the not-found error
\* when a poll finds no project, and with the timeout error when max_wait
\* is over and no poll has read a terminal status; it never returns another
\* status.
C40_WaitReturnsTerminal ==
    /\ [](/\ waits.pc = "returned"
              => waits.result \in TerminalStatuses /\ waits.result = waits.seen
          /\ waits.result # "none" => waits.pc = "returned"
          /\ waits.pc = "timeout"
              => waits.elapsed >= MaxWait /\ waits.seen \notin TerminalStatuses)
    /\ [][/\ EndsIn("returned")
              => /\ up
                 /\ waits.pid \in DOMAIN store
                 /\ store[waits.pid].status = waits'.result
          /\ EndsIn("notfound") <=>
                 (waits.pc = "test" /\ waits.elapsed < MaxWait /\ up
                    /\ waits.pid \notin DOMAIN store /\ waits' # waits)
          /\ EndsIn("timeout") <=>
                 (waits.pc = "test" /\ waits.elapsed >= MaxWait /\ waits' # waits)]_vars

\* the wait has returned completed after it has slept: a poll has read a
\* status that is not terminal before
C40_Witness ==
    /\ waits.pc = "returned"
    /\ waits.result = "completed"
    /\ waits.elapsed > 0
    /\ waits.pid \in DOMAIN store
    /\ store[waits.pid].status = "completed"
=============================================================================
